---- MODULE Spec2Model ----
(***************************************************************************)
(* Agreement bot core of anax: the Citizen Scientist consumer protocol     *)
(* handler (CSProtocolHandler), its ledger client registry (bcState), the  *)
(* deferred command queue and the work channel feeding the agreement       *)
(* workers.                                                                *)
(***************************************************************************)
EXTENDS Integers, Sequences, FiniteSets, TLC

VARIABLES
    bcState,            \* CSProtocolHandler.bcState: org -> type -> name -> BlockchainState
    nextPH,             \* identity of the next citizenscientist.ProtocolHandler allocated
    agreements,         \* the agreement store: agreement id -> Agreement
    deferredCommands,   \* BaseConsumerProtocolHandler.deferredCommands
    messages,           \* the outbound event channel c.messages
    Work,               \* sends on c.Work the command thread is blocked on
    wk,                 \* the work item each agreement worker holds
    recorded,           \* ledger writes made: (agreement id, handler that wrote)
    inputs,             \* events the command thread has taken so far
    last,               \* the last operation run: its name, its subject, what it returned
    effects,            \* per agreement: consumer updates sent and ledger writes made
    alm,                \* agreement lock manager: the workers holding their item's lock
    bcStateLock,        \* CSProtocolHandler.bcStateLock: "free" or "held"
    cmdPC,              \* where the command thread is inside SetBlockchainWritable
    heldPH,             \* the protocol handler each worker has obtained and not yet used
    OrgPatterns,        \* PatternManager.OrgPatterns: org -> pattern -> *PatternEntry
    policyFiles,        \* the policy files in the policy directory
    pmLast              \* the last PatternManager calls: arguments, result, files touched

\* the state of the threads inside a handler
threadVars == <<bcStateLock, cmdPC, heldPH>>

\* the state of the protocol handler, its workers and the agreement store
handlerVars ==
    <<bcState, nextPH, agreements, deferredCommands, messages, Work, wk, recorded, inputs,
      last, effects, alm, bcStateLock, cmdPC, heldPH>>

\* the state of the pattern manager and of the policy directory
pmVars == <<OrgPatterns, policyFiles, pmLast>>

vars == <<handlerVars, pmVars>>

-----------------------------------------------------------------------------
(* Bounds of the model *)

MaxInputs == 3          \* events the command thread takes in one run
MaxHandlers == 3        \* protocol handlers allocated by SetBlockchainWritable
MaxDeferred == 4        \* length of the deferred queue
MaxMessages == 2        \* length of the outbound event channel
NumWorkers == 1         \* config.AgreementBot.AgreementWorkers
MaxUpdates == 2         \* consumer updates sent for one agreement
MaxClock == 3           \* calls of the pattern manager in one run

-----------------------------------------------------------------------------
(* Values *)

Ethereum_bc == "ethereum"

Key(t, n, o) == [type |-> t, name |-> n, org |-> o]

K0 == Key("", "", "")
K1 == Key("ethereum", "bc1", "acme")
K2 == Key("hyperledger", "bc1", "acme")
K3 == Key("ethereum", "bc2", "acme")

\* the ledger instances the environment names in events and replies
LedgerKeys == {K0, K1, K2, K3}

\* the container details an AccountFunded event carries
ConfigA == [service |-> "svcA", servicePort |-> "8545", colonusDir |-> "/colonus/a"]
ConfigB == [service |-> "svcB", servicePort |-> "8546", colonusDir |-> "/colonus/b"]

ClientConfigs == {ConfigA, ConfigB}

AgIds == {"a1", "a2"}
Workers == 1..NumWorkers

NilPH == -1             \* a nil abstractprotocol.ProtocolHandler
Idle == "idle"          \* the command thread is in no handler
NoWork == [workType |-> "NONE", AgreementId |-> ""]

EmptyMap == [x \in {} |-> x]
MapPut(m, k, v) == [x \in DOMAIN m \cup {k} |-> IF x = k THEN v ELSE m[x]]
MapDel(m, k) == [x \in DOMAIN m \ {k} |-> m[x]]

-----------------------------------------------------------------------------
(* The ledger client registry *)

\* the generic handler made by NewCSProtocolHandler
genericAgreementPH == 0

\* getBCNameMap creates the org map and the type map when they are missing;
\* this is the registry after the call
getBCNameMap(bc, org, typeName) ==
    LET bc1 == IF org \in DOMAIN bc THEN bc ELSE MapPut(bc, org, EmptyMap)
    IN  IF typeName \in DOMAIN bc1[org]
        THEN bc1
        ELSE MapPut(bc1, org, MapPut(bc1[org], typeName, EmptyMap))

\* nameMap := c.getBCNameMap(org, typeName), the value returned
nameMapOf(bc, org, typeName) == getBCNameMap(bc, org, typeName)[org][typeName]

IsBlockchainReady(bc, typeName, name, org) ==
    LET nameMap == nameMapOf(bc, org, typeName)
    IN  name \in DOMAIN nameMap /\ nameMap[name].ready

IsBlockchainWritable(bc, typeName, name, org) ==
    LET nameMap == nameMapOf(bc, org, typeName)
    IN  name \in DOMAIN nameMap /\ nameMap[name].ready /\ nameMap[name].writable

AgreementProtocolHandler_NoGeneric(bc, typeName, name, org) ==
    LET nameMap == nameMapOf(bc, org, typeName)
    IN  IF name \in DOMAIN nameMap /\ nameMap[name].ready
        THEN nameMap[name].agreementPH
        ELSE NilPH

AgreementProtocolHandler(bc, typeName, name, org) ==
    IF typeName = "" /\ name = "" /\ org = ""
    THEN genericAgreementPH
    ELSE LET nameMap == nameMapOf(bc, org, typeName)
         IN  IF name \in DOMAIN nameMap /\ nameMap[name].ready
             THEN nameMap[name].agreementPH
             ELSE NilPH

\* the registry after AgreementProtocolHandler: the empty triple returns
\* before getBCNameMap is called
AgreementProtocolHandlerBC(bc, typeName, name, org) ==
    IF typeName = "" /\ name = "" /\ org = ""
    THEN bc
    ELSE getBCNameMap(bc, org, typeName)

\* the ledger fields of an agreement bound to the ledger instance k
AgreementOn(k) == [BlockchainType |-> k.type, BlockchainName |-> k.name, BlockchainOrg |-> k.org]

GetKnownBlockchain(ag) == Key(ag.BlockchainType, ag.BlockchainName, ag.BlockchainOrg)

getColonusDir(bc, ag) ==
    LET k == GetKnownBlockchain(ag)
        nameMap == nameMapOf(bc, k.org, k.type)
    IN  IF ~(k.name \in DOMAIN nameMap) \/ ~nameMap[k.name].ready
        THEN ""
        ELSE nameMap[k.name].colonusDir

\* a nil *Agreement
NilAgreement == [nil |-> TRUE]

CanCancelNow_Always(bc, ag) == TRUE

CanCancelNow(bc, ag) ==
    IF ag = NilAgreement
    THEN TRUE
    ELSE LET k == GetKnownBlockchain(ag)
             nameMap == nameMapOf(bc, k.org, k.type)
         IN  ~(~(k.name \in DOMAIN nameMap)
               \/ (k.name \in DOMAIN nameMap /\ ~nameMap[k.name].ready))

\* the registry after CanCancelNow: a nil agreement returns before
\* getBCNameMap is called
CanCancelNowBC(bc, ag) ==
    IF ag = NilAgreement
    THEN bc
    ELSE getBCNameMap(bc, GetKnownBlockchain(ag).org, GetKnownBlockchain(ag).type)

\* the BlockchainState SetBlockchainWritable stores, in both of its branches
WritableState_NotReady(cfg, ph) ==
    [ready |-> FALSE, writable |-> TRUE, service |-> cfg.service,
     servicePort |-> cfg.servicePort, colonusDir |-> cfg.colonusDir, agreementPH |-> ph]

WritableState_NotWritable(cfg, ph) ==
    [ready |-> TRUE, writable |-> FALSE, service |-> cfg.service,
     servicePort |-> cfg.servicePort, colonusDir |-> cfg.colonusDir, agreementPH |-> ph]

WritableState(cfg, ph) ==
    [ready |-> TRUE, writable |-> TRUE, service |-> cfg.service,
     servicePort |-> cfg.servicePort, colonusDir |-> cfg.colonusDir, agreementPH |-> ph]

\* the registry after SetBlockchainWritable stored the entry of ev
SetWritableBC_WrongKey(bc, k, cfg, ph) ==
    LET bc1 == getBCNameMap(bc, k.org, k.type)
    IN  [o \in DOMAIN bc1 |-> [t \in DOMAIN bc1[o] |->
            IF o = k.org /\ t = k.type
            THEN [n \in DOMAIN bc1[o][t] \cup {k.name} |-> WritableState(cfg, ph)]
            ELSE bc1[o][t]]]

SetWritableBC(bc, k, cfg, ph) ==
    LET bc1 == getBCNameMap(bc, k.org, k.type)
    IN  MapPut(bc1, k.org,
               MapPut(bc1[k.org], k.type,
                      MapPut(bc1[k.org][k.type], k.name, WritableState(cfg, ph))))

\* the registry after SetBlockchainClientNotAvailable
SetNotAvailableBC_WholeType(bc, k) ==
    LET bc1 == getBCNameMap(bc, k.org, k.type)
    IN  MapPut(bc1, k.org, MapPut(bc1[k.org], k.type, EmptyMap))

SetNotAvailableBC(bc, k) ==
    LET bc1 == getBCNameMap(bc, k.org, k.type)
    IN  MapPut(bc1, k.org,
               MapPut(bc1[k.org], k.type, MapDel(bc1[k.org][k.type], k.name)))

\* every (org, type, name) that has an entry
Entries(bc) ==
    { k \in UNION { UNION { { Key(t, n, o) : n \in DOMAIN bc[o][t] } : t \in DOMAIN bc[o] }
                    : o \in DOMAIN bc } : TRUE }

EntryOf(bc, k) == bc[k.org][k.type][k.name]

-----------------------------------------------------------------------------
(* Agreements and the agreement store *)

NewAgreement(ver) ==
    [AgreementProtocolVersion |-> ver, Archived |-> FALSE,
     BlockchainType |-> "", BlockchainName |-> "", BlockchainOrg |-> "",
     BCUpdateAckTime |-> 0, CounterPartyAddress |-> "", ProposalSig |-> "",
     ConsumerProposalSig |-> "", ProposalHash |-> "",
     AgreementFinalizedTime |-> 0, TerminatedReason |-> 0]

\* the order in which FindAgreements returns the agreements of the store
AgOrder == <<"a1", "a2">>

UnarchivedAFilter_All(a) == TRUE

UnarchivedAFilter(a) == ~a.Archived

\* FindSingleAgreementByAgreementId(db, id, protocol, {UnarchivedAFilter()}) found one
FoundUnarchived(db, id) == id \in DOMAIN db /\ UnarchivedAFilter(db[id])

AlreadyReceivedReply(ag) ==
    \/ ag.AgreementProtocolVersion < 2 /\ ag.CounterPartyAddress # ""
    \/ ag.AgreementProtocolVersion = 2 /\ ag.BlockchainType # ""

CanSendMeterRecord(ag) == ag.ProposalSig # "" /\ ag.ConsumerProposalSig # ""

\* AgreementMade, as PersistReply calls it: the reply's address, signature and
\* ledger instance are stored on the agreement
\* PersistReply without the ledger the reply names
PersistReply_NoLedger(db, id, reply) ==
    [db EXCEPT ![id] = [@ EXCEPT !.CounterPartyAddress = reply.Address,
                                 !.ProposalSig = reply.Signature]]

PersistReply(db, id, reply) ==
    [db EXCEPT ![id] = [@ EXCEPT !.CounterPartyAddress = reply.Address,
                                 !.ProposalSig = reply.Signature,
                                 !.BlockchainType = reply.key.type,
                                 !.BlockchainName = reply.key.name,
                                 !.BlockchainOrg = reply.key.org]]

\* AgreementBlockchainUpdate stores the values that are not empty
AgreementBlockchainUpdate(db, id, consumerSig, hash, counterParty, signature) ==
    [db EXCEPT ![id] =
        [@ EXCEPT !.ConsumerProposalSig = IF consumerSig # "" THEN consumerSig ELSE @,
                  !.ProposalHash = IF hash # "" THEN hash ELSE @,
                  !.CounterPartyAddress = IF counterParty # "" THEN counterParty ELSE @,
                  !.ProposalSig = IF signature # "" THEN signature ELSE @]]

\* what has been sent and written for an agreement so far: consumer updates,
\* ledger writes, Finalized notifications, cancellations written to the
\* ledger and the message targets the cancellations were called with
EffectsOf(eff, id) ==
    IF id \in DOMAIN eff
    THEN eff[id]
    ELSE [updates |-> 0, writes |-> 0, notices |-> 0, cancels |-> 0, targets |-> {}]

UpdateSent(eff, id) ==
    MapPut(eff, id, [EffectsOf(eff, id) EXCEPT !.updates = @ + 1])

WriteMade(eff, id) ==
    MapPut(eff, id, [EffectsOf(eff, id) EXCEPT !.writes = @ + 1])

FinalizedSent(eff, id) ==
    MapPut(eff, id, [EffectsOf(eff, id) EXCEPT !.notices = @ + 1])

\* the store after the agreement is archived with a termination reason code
ArchiveAgreement(db, id, code) ==
    [db EXCEPT ![id] = [@ EXCEPT !.Archived = TRUE, !.TerminatedReason = code]]

-----------------------------------------------------------------------------
(* Termination reasons and codes *)

\* the reasons the agreement bot terminates for; the switch of
\* GetTerminationCode has one case for each, and a switch has no two cases
\* with the same constant
TERM_REASON_POLICY_CHANGED == "TERM_REASON_POLICY_CHANGED"
TERM_REASON_NOT_FINALIZED_TIMEOUT == "TERM_REASON_NOT_FINALIZED_TIMEOUT"
TERM_REASON_NO_DATA_RECEIVED == "TERM_REASON_NO_DATA_RECEIVED"
TERM_REASON_NO_REPLY == "TERM_REASON_NO_REPLY"
TERM_REASON_USER_REQUESTED == "TERM_REASON_USER_REQUESTED"
TERM_REASON_NEGATIVE_REPLY == "TERM_REASON_NEGATIVE_REPLY"
TERM_REASON_CANCEL_DISCOVERED == "TERM_REASON_CANCEL_DISCOVERED"
TERM_REASON_CANCEL_FORCED_UPGRADE == "TERM_REASON_CANCEL_FORCED_UPGRADE"
TERM_REASON_CANCEL_BC_WRITE_FAILED == "TERM_REASON_CANCEL_BC_WRITE_FAILED"
TERM_REASON_NODE_HEARTBEAT == "TERM_REASON_NODE_HEARTBEAT"
TERM_REASON_AG_MISSING == "TERM_REASON_AG_MISSING"

\* the codes of the Citizen Scientist protocol
AB_CANCEL_POLICY_CHANGED == 200
AB_CANCEL_NOT_FINALIZED_TIMEOUT == 201
AB_CANCEL_NO_DATA_RECEIVED == 202
AB_CANCEL_NO_REPLY == 203
AB_USER_REQUESTED == 204
AB_CANCEL_NEGATIVE_REPLY == 205
AB_CANCEL_DISCOVERED == 206
AB_CANCEL_FORCED_UPGRADE == 207
AB_CANCEL_BC_WRITE_FAILED == 208
AB_CANCEL_NODE_HEARTBEAT == 209
AB_CANCEL_AG_MISSING == 210
UnknownReasonCode == 999

\* GetTerminationCode with the case of TERM_REASON_USER_REQUESTED returning
\* the code of TERM_REASON_NO_REPLY
GetTerminationCode_SharedCode(reason) ==
    CASE reason = TERM_REASON_POLICY_CHANGED -> AB_CANCEL_POLICY_CHANGED
      [] reason = TERM_REASON_NOT_FINALIZED_TIMEOUT -> AB_CANCEL_NOT_FINALIZED_TIMEOUT
      [] reason = TERM_REASON_NO_DATA_RECEIVED -> AB_CANCEL_NO_DATA_RECEIVED
      [] reason = TERM_REASON_NO_REPLY -> AB_CANCEL_NO_REPLY
      [] reason = TERM_REASON_USER_REQUESTED -> AB_CANCEL_NO_REPLY
      [] reason = TERM_REASON_NEGATIVE_REPLY -> AB_CANCEL_NEGATIVE_REPLY
      [] reason = TERM_REASON_CANCEL_DISCOVERED -> AB_CANCEL_DISCOVERED
      [] reason = TERM_REASON_CANCEL_FORCED_UPGRADE -> AB_CANCEL_FORCED_UPGRADE
      [] reason = TERM_REASON_CANCEL_BC_WRITE_FAILED -> AB_CANCEL_BC_WRITE_FAILED
      [] reason = TERM_REASON_NODE_HEARTBEAT -> AB_CANCEL_NODE_HEARTBEAT
      [] reason = TERM_REASON_AG_MISSING -> AB_CANCEL_AG_MISSING
      [] OTHER -> UnknownReasonCode

GetTerminationCode(reason) ==
    CASE reason = TERM_REASON_POLICY_CHANGED -> AB_CANCEL_POLICY_CHANGED
      [] reason = TERM_REASON_NOT_FINALIZED_TIMEOUT -> AB_CANCEL_NOT_FINALIZED_TIMEOUT
      [] reason = TERM_REASON_NO_DATA_RECEIVED -> AB_CANCEL_NO_DATA_RECEIVED
      [] reason = TERM_REASON_NO_REPLY -> AB_CANCEL_NO_REPLY
      [] reason = TERM_REASON_USER_REQUESTED -> AB_USER_REQUESTED
      [] reason = TERM_REASON_NEGATIVE_REPLY -> AB_CANCEL_NEGATIVE_REPLY
      [] reason = TERM_REASON_CANCEL_DISCOVERED -> AB_CANCEL_DISCOVERED
      [] reason = TERM_REASON_CANCEL_FORCED_UPGRADE -> AB_CANCEL_FORCED_UPGRADE
      [] reason = TERM_REASON_CANCEL_BC_WRITE_FAILED -> AB_CANCEL_BC_WRITE_FAILED
      [] reason = TERM_REASON_NODE_HEARTBEAT -> AB_CANCEL_NODE_HEARTBEAT
      [] reason = TERM_REASON_AG_MISSING -> AB_CANCEL_AG_MISSING
      [] OTHER -> UnknownReasonCode

\* a message target that names the producer of the agreement
fakeMT_ToProducer ==
    [ReceiverExchangeId |-> "dev1", ReceiverPublicKeyObj |-> "nil",
     ReceiverPublicKeyBytes |-> "pk1", ReceiverMsgEndPoint |-> ""]

\* the message target TerminateAgreement hands to the generic handler
fakeMT ==
    [ReceiverExchangeId |-> "", ReceiverPublicKeyObj |-> "nil",
     ReceiverPublicKeyBytes |-> "", ReceiverMsgEndPoint |-> ""]

\* TerminateAgreement: the generic handler is called with the agreement, the
\* reason and fakeMT, and writes the cancellation to the ledger
TerminateAgreement(eff, id, reason) ==
    MapPut(eff, id, [EffectsOf(eff, id) EXCEPT
                        !.cancels = @ + 1,
                        !.targets = @ \cup {fakeMT}])

-----------------------------------------------------------------------------
(* Work items and outbound events *)

AsyncUpdateAgreement(id) == [workType |-> "ASYNC_UPDATE", AgreementId |-> id]
AsyncWriteAgreement(id) == [workType |-> "ASYNC_WRITE", AgreementId |-> id]
CSHandleBCRecorded(id) == [workType |-> "BC_RECORDED", AgreementId |-> id]
CSHandleBCTerminated(id) == [workType |-> "BC_TERMINATED", AgreementId |-> id]
AsyncCancelAgreement(id, reason) ==
    [workType |-> "ASYNC_CANCEL", AgreementId |-> id, Reason |-> reason]
CancelAgreementWork(id, reason) ==
    [workType |-> "AGREEMENT_TIMEOUT", AgreementId |-> id, Reason |-> reason]

NewBCContainerMessage(k) ==
    [event |-> "NEW_BC_CLIENT", type |-> k.type, name |-> k.name, org |-> k.org]

\* DeferCommand appends to the deferred queue
DeferCommand(q, cmd) == Append(q, cmd)

\* the termination path: when the agreement can be cancelled now the
\* cancellation is written to the ledger and the agreement is archived with
\* the reason code, otherwise the request is deferred
CancelAgreement(db, bc, q, eff, id, reason) ==
    IF CanCancelNow(bc, db[id])
    THEN [db |-> ArchiveAgreement(db, id, reason),
          bc |-> CanCancelNowBC(bc, db[id]),
          defer |-> q,
          eff |-> TerminateAgreement(eff, id, reason),
          done |-> TRUE]
    ELSE [db |-> db,
          bc |-> CanCancelNowBC(bc, db[id]),
          defer |-> DeferCommand(q, AsyncCancelAgreement(id, reason)),
          eff |-> eff,
          done |-> FALSE]

-----------------------------------------------------------------------------
(* updateProducers *)

notYetUpFilter_AnyVersion(a) == a.BCUpdateAckTime = 0

notYetUpFilter(a) == a.AgreementProtocolVersion = 2 /\ a.BCUpdateAckTime = 0

\* the commands updateProducers defers for one agreement
updateProducersDeferOne_WriteOnly(q, id) == DeferCommand(q, AsyncWriteAgreement(id))

updateProducersDeferOne(q, id) ==
    DeferCommand(DeferCommand(q, AsyncUpdateAgreement(id)), AsyncWriteAgreement(id))

RECURSIVE updateProducersLoop(_, _, _)
updateProducersLoop(db, q, i) ==
    IF i > Len(AgOrder)
    THEN q
    ELSE LET id == AgOrder[i]
         IN  IF id \in DOMAIN db /\ notYetUpFilter(db[id]) /\ UnarchivedAFilter(db[id])
             THEN updateProducersLoop(db, updateProducersDeferOne(q, id), i + 1)
             ELSE updateProducersLoop(db, q, i + 1)

\* the deferred queue after updateProducers; a failed FindAgreements is logged
updateProducers(db, q, dbErr) ==
    IF dbErr THEN q ELSE updateProducersLoop(db, q, 1)

-----------------------------------------------------------------------------
(* PostReply *)

PostReplyDefer_UpdateOnly(q, id) == DeferCommand(q, AsyncUpdateAgreement(id))

\* the two commands PostReply defers when the ledger is writable
PostReplyDefer(q, id) ==
    DeferCommand(DeferCommand(q, AsyncUpdateAgreement(id)), AsyncWriteAgreement(id))

PostReplyWritable(bc, ag) ==
    IsBlockchainWritable(bc, ag.BlockchainType, ag.BlockchainName, ag.BlockchainOrg)

\* what PostReply does: err is the error it returns, defer the deferred
\* queue, msgs the outbound events, rec the ledger records and bc the
\* registry after the call.  dbErr: the agreement query fails; recErr:
\* RecordAgreement fails.
PostReply(db, bc, q, agreementId, dbErr, recErr) ==
    LET none == [err |-> FALSE, defer |-> q, msgs |-> <<>>, rec |-> {}, bc |-> bc]
    IN  IF dbErr \/ ~FoundUnarchived(db, agreementId)
        THEN none
        ELSE
          LET agreement == db[agreementId]
              k == GetKnownBlockchain(agreement)
          IN  IF agreement.AgreementProtocolVersion < 2
              THEN LET aph == AgreementProtocolHandler(bc, k.type, k.name, k.org)
                       bc1 == AgreementProtocolHandlerBC(bc, k.type, k.name, k.org)
                   IN  IF aph = NilPH
                       THEN [none EXCEPT !.bc = bc1]
                       ELSE IF recErr
                            THEN [none EXCEPT !.bc = bc1, !.err = TRUE]
                            ELSE [none EXCEPT !.bc = bc1,
                                      !.rec = {[AgreementId |-> agreementId, ph |-> aph]}]
              ELSE IF agreement.AgreementProtocolVersion = 2
                   THEN IF PostReplyWritable(bc, agreement)
                        THEN [none EXCEPT !.bc = getBCNameMap(bc, k.org, k.type),
                                  !.defer = PostReplyDefer(q, agreementId)]
                        ELSE [none EXCEPT !.bc = getBCNameMap(bc, k.org, k.type),
                                  !.msgs = <<NewBCContainerMessage(k)>>]
                   ELSE none

-----------------------------------------------------------------------------
(* PersistAgreement, HandleBlockchainEvent, HandleExtensionMessage *)

\* PersistBaseAgreement stores the proposal hash and the consumer signature
PersistBaseAgreement(db, id, hash, sig) ==
    IF id \in DOMAIN db
    THEN [db EXCEPT ![id] = [@ EXCEPT !.ProposalHash = hash, !.ConsumerProposalSig = sig]]
    ELSE db

\* what PersistAgreement does: err is the error it returns, db the store
\* and bc the registry after the call
PersistAgreement(db, bc, id, ver, dbErr, signErr) ==
    IF ver = 1
    THEN IF dbErr \/ ~FoundUnarchived(db, id)
         THEN [err |-> FALSE, db |-> PersistBaseAgreement(db, id, "", ""), bc |-> bc]
         ELSE LET k == GetKnownBlockchain(db[id])
                  ph == AgreementProtocolHandler(bc, k.type, k.name, k.org)
                  bc1 == AgreementProtocolHandlerBC(bc, k.type, k.name, k.org)
              IN  IF ph # NilPH
                  THEN IF signErr
                       THEN [err |-> TRUE, db |-> db, bc |-> bc1]
                       ELSE [err |-> FALSE,
                             db |-> PersistBaseAgreement(db, id, "hash", "csig"),
                             bc |-> bc1]
                  ELSE [err |-> FALSE, db |-> PersistBaseAgreement(db, id, "", ""),
                        bc |-> bc1]
    ELSE [err |-> FALSE, db |-> PersistBaseAgreement(db, id, "", ""), bc |-> bc]

RawEventKinds ==
    {"AgreementCreated", "ProducerTermination", "ConsumerTermination", "Other", "Undecodable"}

HandleBlockchainEvent_Swapped(raw) ==
    IF raw.kind = "Undecodable"
    THEN <<>>
    ELSE IF raw.kind \notin {"AgreementCreated", "ProducerTermination", "ConsumerTermination"}
         THEN <<>>
         ELSE IF raw.kind = "AgreementCreated"
              THEN <<CSHandleBCTerminated(raw.AgreementId)>>
              ELSE <<CSHandleBCRecorded(raw.AgreementId)>>

\* the work items HandleBlockchainEvent sends on c.Work for a raw event
HandleBlockchainEvent(raw) ==
    IF raw.kind = "Undecodable"
    THEN <<>>
    ELSE IF raw.kind # "AgreementCreated" /\ raw.kind # "ProducerTermination"
              /\ raw.kind # "ConsumerTermination"
         THEN <<>>
         ELSE IF raw.kind = "AgreementCreated"
              THEN <<CSHandleBCRecorded(raw.AgreementId)>>
              ELSE <<CSHandleBCTerminated(raw.AgreementId)>>

ExtensionKinds == {"ProducerUpdate", "ConsumerUpdateAck", "Unknown"}

\* the validators of the generic handler: what the payload of a message
\* parses as; the payload kind "Ambiguous" passes both
ValidateBlockchainProducerUpdate(msg) == msg.kind \in {"ProducerUpdate", "Ambiguous"}

ValidateBlockchainConsumerUpdateAck(msg) == msg.kind \in {"ConsumerUpdateAck", "Ambiguous"}

\* the work item built from a message
ExtensionWork(workType, msg) ==
    [workType |-> workType, AgreementId |-> msg.AgreementId, SenderId |-> msg.From,
     SenderPubKey |-> msg.PubKey, MessageId |-> msg.MessageId]

\* a variant of HandleExtensionMessage that tries the acknowledgement first
HandleExtensionMessage_AckFirst(msg) ==
    IF ValidateBlockchainConsumerUpdateAck(msg)
    THEN [err |-> FALSE, work |-> <<ExtensionWork("CONSUMER_UPDATE_ACK", msg)>>]
    ELSE IF ValidateBlockchainProducerUpdate(msg)
         THEN [err |-> FALSE, work |-> <<ExtensionWork("PRODUCER_UPDATE", msg)>>]
         ELSE [err |-> TRUE, work |-> <<>>]

\* what HandleExtensionMessage does: the work item it sends and its error
HandleExtensionMessage(msg) ==
    IF ValidateBlockchainProducerUpdate(msg)
    THEN [err |-> FALSE, work |-> <<ExtensionWork("PRODUCER_UPDATE", msg)>>]
    ELSE IF ValidateBlockchainConsumerUpdateAck(msg)
         THEN [err |-> FALSE, work |-> <<ExtensionWork("CONSUMER_UPDATE_ACK", msg)>>]
         ELSE [err |-> TRUE, work |-> <<>>]

-----------------------------------------------------------------------------
(* UpdateProducer *)

\* where UpdateProducer can fail: getting the message endpoint or target,
\* sending the update, and demarshalling, signing or storing after the send
UpdateFailures == {"none", "endpoint", "send", "sign"}

\* what UpdateProducer does for agreement id: db is the store, bc the
\* registry and eff the messages sent after the call; every failure is logged
UpdateProducer(db, bc, eff, id, fail) ==
    LET ag == db[id]
        k == GetKnownBlockchain(ag)
        none == [db |-> db, bc |-> bc, eff |-> eff]
    IN  IF fail = "endpoint"
        THEN none
        ELSE LET ph == AgreementProtocolHandler(bc, k.type, k.name, k.org)
                 bc1 == AgreementProtocolHandlerBC(bc, k.type, k.name, k.org)
             IN  IF ph = NilPH
                 THEN [none EXCEPT !.bc = bc1]
                 ELSE IF fail = "send"
                 THEN [none EXCEPT !.bc = bc1]
                 ELSE IF fail = "sign"
                 THEN [none EXCEPT !.bc = bc1, !.eff = UpdateSent(eff, id)]
                 ELSE [db |-> AgreementBlockchainUpdate(db, id, "csig", "hash", "", ""),
                       bc |-> bc1,
                       eff |-> UpdateSent(eff, id)]

-----------------------------------------------------------------------------
(* AcceptCommand *)

CommandKinds ==
    {"NewProtocolMessage", "AgreementTimeout", "BlockchainEvent", "PolicyChanged",
     "PolicyDeleted", "WorkloadUpgrade", "MakeAgreement", "Unknown"}

AcceptCommand_EventType(bc, cmd) ==
    IF cmd.kind = "BlockchainEvent"
    THEN IsBlockchainReady(bc, cmd.key.type, cmd.key.name, cmd.key.org)
    ELSE cmd.kind # "Unknown"

AcceptCommand(bc, cmd) ==
    IF cmd.kind = "NewProtocolMessage" THEN TRUE
    ELSE IF cmd.kind = "AgreementTimeout" THEN TRUE
    ELSE IF cmd.kind = "BlockchainEvent"
         THEN IsBlockchainReady(bc, Ethereum_bc, cmd.key.name, cmd.key.org)
    ELSE IF cmd.kind = "PolicyChanged" THEN TRUE
    ELSE IF cmd.kind = "PolicyDeleted" THEN TRUE
    ELSE IF cmd.kind = "WorkloadUpgrade" THEN TRUE
    ELSE IF cmd.kind = "MakeAgreement" THEN TRUE
    ELSE FALSE

\* the registry after AcceptCommand
AcceptCommandBC(bc, cmd) ==
    IF cmd.kind = "BlockchainEvent"
    THEN getBCNameMap(bc, cmd.key.org, Ethereum_bc)
    ELSE bc

-----------------------------------------------------------------------------
(* The pattern manager.  A pattern of the exchange is modelled by its
   content; a *PatternEntry by the record it points to, or NilEntry *)

PatternOrgs == {"o1", "o2"}
PatternNames == {"p1", "p2"}
Contents == {"c1", "c2"}

\* a nil *PatternEntry
NilEntry == [nil |-> TRUE]

\* exchange.GetId: the pattern's name without its org
GetId(patternId) == patternId[2]

\* json.Marshal of a pattern, and hashPattern: SHA3-256 of that text
jsonMarshal(p) == <<"json", p>>
hashPattern(p) == <<"sha3_256", jsonMarshal(p)>>

\* a variant that leaves the entry's hash empty
NewPatternEntry_NoHash(p, now) ==
    [Pattern |-> p, Updated |-> now, Hash |-> <<>>, PolicyFileNames |-> <<>>]

NewPatternEntry(p, now) ==
    [Pattern |-> p, Updated |-> now, Hash |-> hashPattern(p), PolicyFileNames |-> <<>>]

AddPolicyFileName(pe, fileName) ==
    [pe EXCEPT !.PolicyFileNames = Append(@, fileName)]

UpdateEntry(pe, pattern, newHash, now) ==
    [pe EXCEPT !.Pattern = pattern, !.Hash = newHash, !.Updated = now,
               !.PolicyFileNames = <<>>]

NewPatternManager == EmptyMap

hasOrg(pm, org) == org \in DOMAIN pm

hasPattern(pm, org, pattern) == hasOrg(pm, org) /\ pattern \in DOMAIN pm[org]

\* exchange.ConvertToPolicies: one policy for each workload of the pattern,
\* named after the pattern and the workload
WorkloadsOf(pattern) == IF pattern = "c1" THEN <<"w1">> ELSE <<"w1", "w2">>

ConvertToPolicies(patternId, pattern) ==
    [i \in 1..Len(WorkloadsOf(pattern)) |->
        [Header |-> [Name |-> <<GetId(patternId), WorkloadsOf(pattern)[i]>>]]]

\* policy.CreatePolicyFile: the file's name comes from the org and the
\* policy's name
PolicyFileName(org, policyName) ==
    [org |-> org, pattern |-> policyName[1], policy |-> policyName[2]]

\* policy.DeletePolicyFilesForOrg, DeletePolicyFilesForPattern and
\* DeletePolicyFile: the files left in the policy directory
DeletePolicyFilesForOrg(files, org) == {f \in files : f.org # org}

DeletePolicyFilesForPattern(files, org, pattern) ==
    {f \in files : ~(f.org = org /\ f.pattern = pattern)}

DeletePolicyFile(files, fileName) == files \ {fileName}

SeqRange(q) == {q[i] : i \in 1..Len(q)}

\* the pattern manager, the policy directory and what a call has done so
\* far: its error and the operation that failed, the pattern the loop is at
PmState(pm, files) ==
    [pm |-> pm, files |-> files, err |-> FALSE, failed |-> "none", logged |-> FALSE,
     creates |-> 0, deletes |-> 0, touched |-> {}, cur |-> "", at |-> ""]

\* the state with the policy directory becoming left: the files that went
\* are counted
WithFiles(st, left) ==
    [st EXCEPT !.files = left,
               !.deletes = @ + Cardinality(st.files) - Cardinality(left)]

\* where a file operation of a call fails: 0 is nowhere, k is at the k-th file
FailurePoints == {0, 1, 2}

\* DeleteAllPolicyFiles: every file the entry names is deleted; the first
\* error ends the loop, with the files before it deleted
RECURSIVE DeleteAllPolicyFiles(_, _, _, _)
DeleteAllPolicyFiles(st, pe, i, delFileErr) ==
    IF i > Len(pe.PolicyFileNames)
    THEN st
    ELSE IF delFileErr = i
    THEN [st EXCEPT !.err = TRUE, !.failed = "DeleteAllPolicyFiles"]
    ELSE DeleteAllPolicyFiles(WithFiles(st, DeletePolicyFile(st.files, pe.PolicyFileNames[i])),
                              pe, i + 1, delFileErr)

\* a variant that deletes the org's files and keeps its map
deleteOrg_KeepOrg(st, org, delErr) ==
    IF delErr
    THEN [st EXCEPT !.logged = TRUE]
    ELSE WithFiles(st, DeletePolicyFilesForOrg(st.files, org))

\* deleteOrg: an error of the file deletion is logged only; the org's map is
\* removed either way
deleteOrg(st, org, delErr) ==
    LET st1 == IF delErr
               THEN [st EXCEPT !.logged = TRUE]
               ELSE WithFiles(st, DeletePolicyFilesForOrg(st.files, org))
    IN  IF hasOrg(st1.pm, org)
        THEN [st1 EXCEPT !.pm = MapDel(@, org)]
        ELSE st1

\* a variant that removes the pattern and leaves its files
deletePattern_KeepFiles(st, org, pattern, delErr) ==
    IF hasPattern(st.pm, org, pattern)
    THEN [st EXCEPT !.pm[org] = MapDel(@, pattern)]
    ELSE st

\* deletePattern: an error of the file deletion is logged only; the pattern
\* is removed either way
deletePattern(st, org, pattern, delErr) ==
    LET st1 == IF delErr
               THEN [st EXCEPT !.logged = TRUE]
               ELSE WithFiles(st, DeletePolicyFilesForPattern(st.files, org, pattern))
    IN  IF hasPattern(st1.pm, org, pattern)
        THEN [st1 EXCEPT !.pm[org] = MapDel(@, pattern)]
        ELSE st1

RECURSIVE deletePatterns(_, _, _, _)
deletePatterns(st, org, patterns, delErr) ==
    IF patterns = {}
    THEN st
    ELSE LET pattern == CHOOSE x \in patterns : TRUE
         IN  deletePatterns(deletePattern(st, org, pattern, delErr), org,
                            patterns \ {pattern}, delErr)

\* a variant that gives every served pattern a nil entry
newMapOf_AllNew(pm, servedPatterns) ==
    [org \in {served.Org : served \in servedPatterns} |->
        [pattern \in {served.Pattern : served \in {x \in servedPatterns : x.Org = org}} |->
            NilEntry]]

\* the map SetCurrentPatterns builds from the served patterns: an entry of
\* the existing map is copied, a new pattern gets a nil entry
newMapOf(pm, servedPatterns) ==
    [org \in {served.Org : served \in servedPatterns} |->
        [pattern \in {served.Pattern : served \in {x \in servedPatterns : x.Org = org}} |->
            IF hasPattern(pm, org, pattern) THEN pm[org][pattern] ELSE NilEntry]]

\* the second loop of SetCurrentPatterns: an org that is not in the new map
\* is deleted, and of the other orgs every pattern that is not in the new map
RECURSIVE dropUnserved(_, _, _, _)
dropUnserved(st, newMap, orgs, delErr) ==
    IF orgs = {}
    THEN st
    ELSE LET org == CHOOSE x \in orgs : TRUE
             st1 == IF org \notin DOMAIN newMap
                    THEN deleteOrg(st, org, delErr)
                    ELSE deletePatterns(st, org, DOMAIN st.pm[org] \ DOMAIN newMap[org],
                                        delErr)
         IN  dropUnserved(st1, newMap, orgs \ {org}, delErr)

SetCurrentPatternsOn(st, servedPatterns, delErr) ==
    IF DOMAIN st.pm = {} /\ servedPatterns = {}
    THEN st
    ELSE LET newMap == newMapOf(st.pm, servedPatterns)
         IN  [dropUnserved(st, newMap, DOMAIN st.pm, delErr) EXCEPT !.pm = newMap]

\* createPolicyFiles: the pattern's policies are written to files and the
\* file names are added to the entry; the first error ends the call, with
\* the files before it written and named (an error of the conversion is an
\* error at the first file)
createPolicyFiles(st, org, name, patternId, pattern, createErr) ==
    LET policies == ConvertToPolicies(patternId, pattern)
        failed == createErr \in 1..Len(policies)
        written == IF failed THEN createErr - 1 ELSE Len(policies)
        fileNames == [i \in 1..written |-> PolicyFileName(org, policies[i].Header.Name)]
    IN  [st EXCEPT !.pm[org][name].PolicyFileNames = @ \o fileNames,
                   !.files = @ \cup SeqRange(fileNames),
                   !.creates = @ + Len(fileNames),
                   !.err = failed,
                   !.failed = IF failed THEN "createPolicyFiles" ELSE @]

\* the third loop of UpdatePatternPolicies, over the defined patterns in the
\* order the map yields them; cur is the loop variable pattern
RECURSIVE updateDefined(_, _, _, _, _, _, _, _)
updateDefined(st, org, definedPatterns, order, i, now, delFileErr, createErr) ==
    IF i > Len(order) \/ st.err
    THEN st
    ELSE LET patternId == order[i]
             pattern == definedPatterns[patternId]
             name == GetId(patternId)
             st0 == [st EXCEPT !.cur = pattern, !.at = name]
             next(x) == updateDefined(x, org, definedPatterns, order, i + 1, now,
                                      delFileErr, createErr)
         IN  IF ~hasPattern(st.pm, org, name)
             THEN next(st0)
             ELSE IF st.pm[org][name] = NilEntry
             THEN LET stored == [st0 EXCEPT !.pm[org][name] = NewPatternEntry(pattern, now),
                                            !.touched = @ \cup {name}]
                  IN  next(createPolicyFiles(stored, org, name, patternId, pattern, createErr))
             ELSE LET pe == st.pm[org][name]
                      newHash == hashPattern(pattern)
                  IN  IF pe.Hash = newHash
                      THEN next(st0)
                      ELSE LET gone == DeleteAllPolicyFiles(st0, pe, 1, delFileErr)
                               updated == [gone EXCEPT
                                   !.pm[org][name] = UpdateEntry(pe, pattern, newHash, now),
                                   !.touched = @ \cup {name}]
                           IN  IF gone.err
                               THEN gone
                               ELSE next(createPolicyFiles(updated, org, name, patternId,
                                                           pattern, createErr))

\* the entries made or updated in a call hold &pattern, the address of the
\* loop variable: with one variable for the whole loop they all show the
\* pattern the loop held last, with a variable of its own for each iteration
\* each shows its own pattern
LoopVariables == {"one for the loop", "one for each iteration"}

derefPattern(st, org, loopVar) ==
    IF loopVar = "one for the loop" /\ hasOrg(st.pm, org)
    THEN [st EXCEPT !.pm[org] =
            [name \in DOMAIN @ |->
                IF name \in st.touched THEN [@[name] EXCEPT !.Pattern = st.cur] ELSE @[name]]]
    ELSE st

UpdatePatternPoliciesOn(st, org, definedPatterns, order, now, loopVar, delErr, delFileErr, createErr) ==
    IF ~hasOrg(st.pm, org)
    THEN [st EXCEPT !.err = TRUE, !.failed = "hasOrg"]
    ELSE IF DOMAIN definedPatterns = {}
    THEN deleteOrg(st, org, delErr)
    ELSE LET undefined == {pattern \in DOMAIN st.pm[org] :
                              ~\E patternId \in DOMAIN definedPatterns :
                                  GetId(patternId) = pattern}
             st1 == deletePatterns(st, org, undefined, delErr)
         IN  derefPattern(updateDefined(st1, org, definedPatterns, order, 1, now,
                                        delFileErr, createErr),
                          org, loopVar)

\* the record of the pattern manager's calls: the arguments of the last
\* SetCurrentPatterns and of the last UpdatePatternPolicies, the result and
\* the file operations of the last call, and how far a repetition of the
\* pair of calls with the same arguments has got
NoCall ==
    [op |-> "none", served |-> {}, org |-> "", defined |-> EmptyMap, err |-> FALSE,
     failed |-> "none", at |-> "", logged |-> FALSE, creates |-> 0, deletes |-> 0,
     stage |-> 0, clean |-> TRUE, clock |-> 0]

PatternManagerIdle ==
    /\ OrgPatterns = NewPatternManager
    /\ policyFiles = {}
    /\ pmLast = NoCall

-----------------------------------------------------------------------------
(* The state after construction *)

Init ==
    /\ bcState = EmptyMap
    /\ nextPH = 1
    /\ agreements = EmptyMap
    /\ deferredCommands = <<>>
    /\ messages = <<>>
    /\ Work = <<>>
    /\ wk = [w \in Workers |-> NoWork]
    /\ recorded = {}
    /\ inputs = 0
    /\ PatternManagerIdle
    /\ last = [op |-> "Init", arg |-> "", ret |-> FALSE]
    /\ effects = EmptyMap
    /\ alm = {}
    /\ bcStateLock = "free"
    /\ cmdPC = Idle
    /\ heldPH = [w \in Workers |-> NilPH]

-----------------------------------------------------------------------------
(* The command thread.  c.Work is made without a buffer, so a send on it   *)
(* completes when a worker receives the item: a handler that sends one     *)
(* item hands it to an idle worker, and while it sends the deferred batch  *)
(* (Work holds what is left of it) the thread runs no other handler.       *)

\* the command thread takes its next event
TakeInput ==
    /\ Work = <<>>
    /\ inputs < MaxInputs
    /\ inputs' = inputs + 1
    /\ UNCHANGED pmVars

\* c.Work <- items, for a handler that sends at most one item
SendWork(items, w) ==
    IF items = <<>>
    THEN UNCHANGED wk
    ELSE /\ wk[w] = NoWork
         /\ wk' = [wk EXCEPT ![w] = items[1]]

\* AccountFunded: SetBlockchainWritable, which ends by calling updateProducers
SetBlockchainWritable(k, cfg, initErr, dbErr) ==
    /\ TakeInput
    /\ nextPH <= MaxHandlers
    /\ Len(updateProducers(agreements, deferredCommands, dbErr)) <= MaxDeferred
    /\ bcState' = SetWritableBC(bcState, k, cfg, nextPH)
    /\ nextPH' = nextPH + 1
    /\ deferredCommands' = updateProducers(agreements, deferredCommands, dbErr)
    /\ last' = [op |-> "SetBlockchainWritable", arg |-> k, ret |-> ~dbErr]
    /\ UNCHANGED <<agreements, messages, Work, wk, recorded>>
    /\ UNCHANGED <<effects, alm, threadVars>>

\* ClientStopping
SetBlockchainClientNotAvailable(k) ==
    /\ TakeInput
    /\ bcState' = SetNotAvailableBC(bcState, k)
    /\ last' = [op |-> "SetBlockchainClientNotAvailable", arg |-> k, ret |-> TRUE]
    /\ UNCHANGED <<nextPH, agreements, deferredCommands, messages, Work, wk, recorded>>
    /\ UNCHANGED <<effects, alm, threadVars>>

\* BlockchainClientInitialized
SetBlockchainClientAvailable(k) ==
    /\ TakeInput
    /\ last' = [op |-> "SetBlockchainClientAvailable", arg |-> k, ret |-> TRUE]
    /\ UNCHANGED <<bcState, nextPH, agreements, deferredCommands, messages, Work, wk,
                   recorded>>
    /\ UNCHANGED <<effects, alm, threadVars>>

\* a caller reads the registry through the four accessors
ReadRegistry(k) ==
    /\ bcState' = getBCNameMap(bcState, k.org, k.type)
    /\ last' = [op |-> "ReadRegistry", arg |-> k,
                ret |-> <<IsBlockchainReady(bcState, k.type, k.name, k.org),
                          IsBlockchainWritable(bcState, k.type, k.name, k.org),
                          AgreementProtocolHandler(bcState, k.type, k.name, k.org),
                          getColonusDir(bcState, AgreementOn(k))>>]
    /\ UNCHANGED <<pmVars, inputs, nextPH, agreements, deferredCommands, messages, Work, wk, recorded>>
    /\ UNCHANGED <<effects, alm, threadVars>>

\* a command reaches the router: AcceptCommand, and for an accepted
\* blockchain event HandleBlockchainEvent
RouteCommand(cmd, w) ==
    /\ TakeInput
    /\ bcState' = AcceptCommandBC(bcState, cmd)
    /\ SendWork(IF cmd.kind = "BlockchainEvent" /\ AcceptCommand(bcState, cmd)
                THEN HandleBlockchainEvent(cmd.raw)
                ELSE <<>>, w)
    /\ last' = [op |-> "AcceptCommand", arg |-> cmd, ret |-> AcceptCommand(bcState, cmd)]
    /\ UNCHANGED <<nextPH, agreements, deferredCommands, messages, Work, recorded>>
    /\ UNCHANGED <<effects, alm, threadVars>>

\* an inbound protocol message that is no proposal reply
RouteExtensionMessage(msg, w) ==
    /\ TakeInput
    /\ SendWork(HandleExtensionMessage(msg).work, w)
    /\ last' = [op |-> "HandleExtensionMessage", arg |-> msg.kind,
                ret |-> ~HandleExtensionMessage(msg).err]
    /\ UNCHANGED <<bcState, nextPH, agreements, deferredCommands, messages, Work, recorded>>
    /\ UNCHANGED <<effects, alm, threadVars>>

\* MakeAgreement: the base handler hands the initiation of an agreement to a worker
RouteMakeAgreement(id, ver, w) ==
    /\ TakeInput
    /\ id \notin DOMAIN agreements
    /\ \A v \in DOMAIN wk : wk[v].AgreementId # id
    /\ SendWork(<<[workType |-> "INITIATE", AgreementId |-> id, ver |-> ver]>>, w)
    /\ last' = [op |-> "MakeAgreement", arg |-> id, ret |-> TRUE]
    /\ UNCHANGED <<bcState, nextPH, agreements, deferredCommands, messages, Work, recorded>>
    /\ UNCHANGED <<effects, alm, threadVars>>

\* a termination request of the governance: the reason is turned into its
\* code and the request is handed to a worker
RouteCancel(id, reason, w) ==
    /\ TakeInput
    /\ SendWork(<<CancelAgreementWork(id, GetTerminationCode(reason))>>, w)
    /\ last' = [op |-> "GetTerminationCode", arg |-> reason, ret |-> GetTerminationCode(reason)]
    /\ UNCHANGED <<bcState, nextPH, agreements, deferredCommands, messages, Work, recorded>>
    /\ UNCHANGED <<effects, alm, threadVars>>

\* a proposal reply: the base handler hands it to a worker
RouteReply(reply, w) ==
    /\ TakeInput
    /\ SendWork(<<reply>>, w)
    /\ last' = [op |-> "ProposalReply", arg |-> reply.AgreementId, ret |-> TRUE]
    /\ UNCHANGED <<bcState, nextPH, agreements, deferredCommands, messages, Work, recorded>>
    /\ UNCHANGED <<effects, alm, threadVars>>

\* GetDeferredCommands returns the whole queue and leaves it empty
GetDeferredCommands(q) == [cmds |-> q, left |-> <<>>]

\* a variant of HandleDeferredCommands that sends the last command first
HandleDeferredCommands_LastFirst ==
    /\ Work = <<>>
    /\ deferredCommands # <<>>
    /\ Work' = [i \in 1..Len(deferredCommands) |->
                    deferredCommands[Len(deferredCommands) + 1 - i]]
    /\ deferredCommands' = <<>>
    /\ last' = [op |-> "HandleDeferredCommands", arg |-> "", ret |-> TRUE]
    /\ UNCHANGED <<pmVars, inputs, bcState, nextPH, agreements, messages, wk, recorded>>
    /\ UNCHANGED <<effects, alm, threadVars>>

\* HandleDeferredCommands: the commands taken are then sent on c.Work one
\* after the other, in the order of the queue
HandleDeferredCommands ==
    /\ Work = <<>>
    /\ deferredCommands # <<>>
    /\ Work' = GetDeferredCommands(deferredCommands).cmds
    /\ deferredCommands' = GetDeferredCommands(deferredCommands).left
    /\ last' = [op |-> "HandleDeferredCommands", arg |-> "", ret |-> TRUE]
    /\ UNCHANGED <<pmVars, inputs, bcState, nextPH, agreements, messages, wk, recorded>>
    /\ UNCHANGED <<effects, alm, threadVars>>

\* the event loop takes an outbound event off c.messages
ConsumeMessage ==
    /\ messages # <<>>
    /\ messages' = Tail(messages)
    /\ UNCHANGED <<pmVars, inputs, bcState, nextPH, agreements, deferredCommands, Work, wk, recorded, last>>
    /\ UNCHANGED <<effects, alm, threadVars>>

-----
(* The agreement workers *)

\* Initialize makes one lock manager and hands it to every worker it starts
agreementLockMgr_OnePerWorker(w) == w

agreementLockMgr(w) == 0

\* no worker sharing w's lock manager holds the lock of the agreement of w's item
CanLock(w) ==
    \A v \in alm :
        agreementLockMgr(v) = agreementLockMgr(w) => wk[v].AgreementId # wk[w].AgreementId

\* the worker takes the agreement lock of the item it received
LockAgreement(w) ==
    /\ wk[w] # NoWork
    /\ w \notin alm
    /\ CanLock(w)
    /\ alm' = alm \cup {w}
    /\ UNCHANGED <<bcState, nextPH, agreements, deferredCommands, messages, Work, wk, recorded,
                   inputs, pmVars, last, effects, threadVars>>

\* an item is handled under the agreement lock: the worker holds it already,
\* or takes it now
UnderLock(w) == w \in alm \/ CanLock(w)

\* the worker is done with its item and gives the agreement lock back
Release(w) ==
    /\ wk' = [wk EXCEPT ![w] = NoWork]
    /\ alm' = alm \ {w}

\* a worker receives the next command of the deferred batch being sent
Receive(w) ==
    /\ wk[w] = NoWork
    /\ Work # <<>>
    /\ wk' = [wk EXCEPT ![w] = Head(Work)]
    /\ Work' = Tail(Work)
    /\ UNCHANGED <<pmVars, inputs, bcState, nextPH, agreements, deferredCommands, messages, recorded, last>>
    /\ UNCHANGED <<effects, alm, threadVars>>

\* the worker has handled its item without touching anything else
Dropped(w, op) ==
    /\ Release(w)
    /\ last' = [op |-> op, arg |-> wk[w].AgreementId, ret |-> FALSE]
    /\ UNCHANGED <<pmVars, inputs, bcState, nextPH, agreements, deferredCommands, messages, Work, recorded>>
    /\ UNCHANGED <<effects, threadVars>>

\* InitiateAgreement: the agreement is created and PersistAgreement called
ProcessInitiate(w, dbErr, signErr, sendErr) ==
    /\ wk[w].workType = "INITIATE"
    /\ UnderLock(w)
    /\ LET id == wk[w].AgreementId
           ver == wk[w].ver
       IN  IF id \in DOMAIN agreements
           THEN Dropped(w, "InitiateDropped")
           ELSE LET r == PersistAgreement(MapPut(agreements, id, NewAgreement(ver)),
                                          bcState, id, ver, dbErr, signErr)
                    c == CancelAgreement(r.db, r.bc, deferredCommands, effects, id,
                                         GetTerminationCode(TERM_REASON_NO_REPLY))
                IN  IF sendErr /\ ~r.err
                    THEN /\ Len(c.defer) <= MaxDeferred
                         /\ agreements' = c.db
                         /\ bcState' = c.bc
                         /\ deferredCommands' = c.defer
                         /\ effects' = c.eff
                         /\ Release(w)
                         /\ last' = [op |-> "SendProposalFailed", arg |-> id, ret |-> c.done]
                         /\ UNCHANGED <<pmVars, inputs, nextPH, messages, Work, recorded>>
                         /\ UNCHANGED threadVars
                    ELSE /\ agreements' = r.db
                         /\ bcState' = r.bc
                         /\ Release(w)
                         /\ last' = [op |-> "PersistAgreement", arg |-> id, ret |-> ~r.err]
                         /\ UNCHANGED <<pmVars, inputs, nextPH, deferredCommands, messages, Work, recorded>>
                         /\ UNCHANGED <<effects, threadVars>>

\* a proposal reply: a negative one ends the agreement, a positive one is
\* stored by PersistReply and followed by PostReply
ProcessReply(w, dbErr, recErr) ==
    /\ wk[w].workType = "REPLY"
    /\ UnderLock(w)
    /\ LET id == wk[w].AgreementId
       IN  IF ~FoundUnarchived(agreements, id)
           THEN Dropped(w, "ReplyDropped")
           ELSE IF AlreadyReceivedReply(agreements[id])
           THEN Dropped(w, "ReplyDropped")
           ELSE IF ~wk[w].decision
           THEN LET c == CancelAgreement(agreements, bcState, deferredCommands, effects, id,
                                         GetTerminationCode(TERM_REASON_NEGATIVE_REPLY))
                IN  /\ Len(c.defer) <= MaxDeferred
                    /\ agreements' = c.db
                    /\ bcState' = c.bc
                    /\ deferredCommands' = c.defer
                    /\ effects' = c.eff
                    /\ Release(w)
                    /\ last' = [op |-> "NegativeReply", arg |-> id, ret |-> c.done]
                    /\ UNCHANGED <<pmVars, inputs, nextPH, messages, Work, recorded>>
                    /\ UNCHANGED threadVars
           ELSE LET db1 == PersistReply(agreements, id, wk[w])
                    r == PostReply(db1, bcState, deferredCommands, id, dbErr, recErr)
                IN  /\ Len(r.defer) <= MaxDeferred
                    /\ Len(messages) + Len(r.msgs) <= MaxMessages
                    /\ agreements' = db1
                    /\ bcState' = r.bc
                    /\ deferredCommands' = r.defer
                    /\ messages' = messages \o r.msgs
                    /\ recorded' = recorded \cup r.rec
                    /\ Release(w)
                    /\ last' = [op |-> "PostReply", arg |-> id, ret |-> ~r.err]
                    /\ UNCHANGED <<pmVars, inputs, nextPH, Work>>
                    /\ UNCHANGED <<effects, threadVars>>

\* a termination request or a deferred cancellation: the agreement goes
\* through the termination path with the reason code of the item
CancelItem(w, op) ==
    /\ UnderLock(w)
    /\ LET id == wk[w].AgreementId
       IN  IF ~FoundUnarchived(agreements, id)
           THEN Dropped(w, "CancelDropped")
           ELSE LET c == CancelAgreement(agreements, bcState, deferredCommands, effects, id,
                                         wk[w].Reason)
                IN  /\ Len(c.defer) <= MaxDeferred
                    /\ agreements' = c.db
                    /\ bcState' = c.bc
                    /\ deferredCommands' = c.defer
                    /\ effects' = c.eff
                    /\ Release(w)
                    /\ last' = [op |-> op, arg |-> id, ret |-> c.done]
                    /\ UNCHANGED <<pmVars, inputs, nextPH, messages, Work, recorded>>
                    /\ UNCHANGED threadVars

ProcessCancel(w) ==
    /\ wk[w].workType = "AGREEMENT_TIMEOUT"
    /\ CancelItem(w, "CancelAgreement")

ProcessAsyncCancel(w) ==
    /\ wk[w].workType = "ASYNC_CANCEL"
    /\ CancelItem(w, "AsyncCancel")

\* the producer's update: its address and signature are stored
ProcessProducerUpdate(w) ==
    /\ wk[w].workType = "PRODUCER_UPDATE"
    /\ UnderLock(w)
    /\ LET id == wk[w].AgreementId
       IN  IF ~FoundUnarchived(agreements, id) \/ agreements[id].AgreementProtocolVersion # 2
           THEN Dropped(w, "ProducerUpdate")
           ELSE /\ agreements' = [agreements EXCEPT ![id] =
                       [@ EXCEPT !.CounterPartyAddress = "0xP", !.ProposalSig = "s_p"]]
                /\ Release(w)
                /\ last' = [op |-> "ProducerUpdate", arg |-> id, ret |-> TRUE]
                /\ UNCHANGED <<pmVars, inputs, bcState, nextPH, deferredCommands, messages, Work, recorded>>
                /\ UNCHANGED <<effects, threadVars>>

\* the producer's acknowledgement of the consumer update sets BCUpdateAckTime
ProcessConsumerUpdateAck(w) ==
    /\ wk[w].workType = "CONSUMER_UPDATE_ACK"
    /\ UnderLock(w)
    /\ LET id == wk[w].AgreementId
       IN  IF ~FoundUnarchived(agreements, id) \/ agreements[id].AgreementProtocolVersion # 2
           THEN Dropped(w, "ConsumerUpdateAck")
           ELSE /\ agreements' = [agreements EXCEPT ![id] = [@ EXCEPT !.BCUpdateAckTime = 1]]
                /\ Release(w)
                /\ last' = [op |-> "ConsumerUpdateAck", arg |-> id, ret |-> TRUE]
                /\ UNCHANGED <<pmVars, inputs, bcState, nextPH, deferredCommands, messages, Work, recorded>>
                /\ UNCHANGED <<effects, threadVars>>

\* BC_RECORDED: the agreement is finalized and the producer is told so; for an
\* agreement that is gone, archived or finalized already the item is dropped
ProcessBCRecorded(w) ==
    /\ wk[w].workType = "BC_RECORDED"
    /\ UnderLock(w)
    /\ LET id == wk[w].AgreementId
       IN  IF ~FoundUnarchived(agreements, id) \/ agreements[id].AgreementFinalizedTime # 0
           THEN Dropped(w, "BCRecorded")
           ELSE /\ agreements' = [agreements EXCEPT ![id] =
                       [@ EXCEPT !.AgreementFinalizedTime = 1]]
                /\ effects' = FinalizedSent(effects, id)
                /\ Release(w)
                /\ last' = [op |-> "BCRecorded", arg |-> id, ret |-> TRUE]
                /\ UNCHANGED <<pmVars, inputs, bcState, nextPH, deferredCommands, messages, Work, recorded>>
                /\ UNCHANGED threadVars

\* BC_TERMINATED: the cancellation seen on the ledger ends the agreement
ProcessBCTerminated(w) ==
    /\ wk[w].workType = "BC_TERMINATED"
    /\ UnderLock(w)
    /\ LET id == wk[w].AgreementId
       IN  IF ~FoundUnarchived(agreements, id)
           THEN Dropped(w, "BCTerminated")
           ELSE /\ agreements' = ArchiveAgreement(agreements, id, AB_CANCEL_DISCOVERED)
                /\ Release(w)
                /\ last' = [op |-> "BCTerminated", arg |-> id, ret |-> TRUE]
                /\ UNCHANGED <<pmVars, inputs, bcState, nextPH, deferredCommands, messages, Work, recorded>>
                /\ UNCHANGED <<effects, threadVars>>

AsyncUpdateNeeded_AnyTime(ag) == ag.AgreementProtocolVersion = 2

\* the worker runs UpdateProducer only for an agreement that still waits for
\* the producer's acknowledgement
AsyncUpdateNeeded(ag) == ag.AgreementProtocolVersion = 2 /\ ag.BCUpdateAckTime = 0

\* ASYNC_UPDATE: a command for an agreement that is gone or has progressed
\* is dropped; otherwise UpdateProducer runs
ProcessAsyncUpdate(w, fail) ==
    /\ wk[w].workType = "ASYNC_UPDATE"
    /\ UnderLock(w)
    /\ LET id == wk[w].AgreementId
       IN  IF ~FoundUnarchived(agreements, id)
           THEN Dropped(w, "AsyncUpdateDropped")
           ELSE IF ~AsyncUpdateNeeded(agreements[id])
           THEN Dropped(w, "AsyncUpdateDropped")
           ELSE LET r == UpdateProducer(agreements, bcState, effects, id, fail)
                IN  /\ EffectsOf(r.eff, id).updates <= MaxUpdates
                    /\ agreements' = r.db
                    /\ bcState' = r.bc
                    /\ effects' = r.eff
                    /\ Release(w)
                    /\ last' = [op |-> "UpdateProducer", arg |-> id, ret |-> fail = "none"]
                    /\ UNCHANGED <<pmVars, inputs, nextPH, deferredCommands, messages, Work, recorded>>
                    /\ UNCHANGED threadVars

\* the ledger write may proceed once the producer has acknowledged the update
AsyncWriteReady_NoAck(ag) == ag.AgreementProtocolVersion = 2

AsyncWriteReady(ag) == ag.AgreementProtocolVersion = 2 /\ ag.BCUpdateAckTime # 0

\* the agreement has been written to the ledger already
AlreadyWritten(rec, id) == \E r \in rec : r.AgreementId = id

\* ASYNC_WRITE: a command for an agreement that is gone or already written is
\* dropped; before the acknowledgement, or while the ledger has no ready
\* client, the command goes back to the deferred queue; otherwise the
\* agreement is written through the handler of its ledger
ProcessAsyncWrite(w, writeErr) ==
    /\ wk[w].workType = "ASYNC_WRITE"
    /\ UnderLock(w)
    /\ LET id == wk[w].AgreementId
       IN  IF ~FoundUnarchived(agreements, id)
           THEN Dropped(w, "AsyncWriteDropped")
           ELSE IF AlreadyWritten(recorded, id)
           THEN Dropped(w, "AsyncWriteDropped")
           ELSE
             LET ag == agreements[id]
                 k == GetKnownBlockchain(ag)
                 ph == AgreementProtocolHandler(bcState, k.type, k.name, k.org)
             IN  IF ~AsyncWriteReady(ag)
                 THEN /\ Len(deferredCommands) < MaxDeferred
                      /\ deferredCommands' = DeferCommand(deferredCommands, wk[w])
                      /\ Release(w)
                      /\ last' = [op |-> "AsyncWriteDeferred", arg |-> id, ret |-> FALSE]
                      /\ UNCHANGED <<pmVars, inputs, bcState, nextPH, agreements, messages, Work,
                                     recorded, effects, threadVars>>
                 ELSE IF ph = NilPH
                 THEN /\ Len(deferredCommands) < MaxDeferred
                      /\ Len(messages) < MaxMessages
                      /\ bcState' = AgreementProtocolHandlerBC(bcState, k.type, k.name, k.org)
                      /\ deferredCommands' = DeferCommand(deferredCommands, wk[w])
                      /\ messages' = Append(messages, NewBCContainerMessage(k))
                      /\ Release(w)
                      /\ last' = [op |-> "AsyncWriteDeferred", arg |-> id, ret |-> FALSE]
                      /\ UNCHANGED <<pmVars, inputs, nextPH, agreements, Work, recorded, effects,
                                     threadVars>>
                 ELSE /\ bcState' = AgreementProtocolHandlerBC(bcState, k.type, k.name, k.org)
                      /\ recorded' = IF writeErr THEN recorded
                                     ELSE recorded \cup {[AgreementId |-> id, ph |-> ph]}
                      /\ effects' = IF writeErr THEN effects ELSE WriteMade(effects, id)
                      /\ Release(w)
                      /\ last' = [op |-> "AsyncWrite", arg |-> id, ret |-> ~writeErr]
                      /\ UNCHANGED <<pmVars, inputs, nextPH, agreements, deferredCommands, messages,
                                     Work, threadVars>>

-----------------------------------------------------------------------------
(* The environment's inputs *)

BlockchainEvents(keys) ==
    { [kind |-> "BlockchainEvent", key |-> k, raw |-> [kind |-> rk, AgreementId |-> id]] :
        k \in keys, rk \in {"AgreementCreated", "ProducerTermination", "ConsumerTermination"},
        id \in AgIds }
    \cup { [kind |-> "BlockchainEvent", key |-> k, raw |-> [kind |-> rk, AgreementId |-> ""]] :
        k \in keys, rk \in {"Other", "Undecodable"} }

OtherCommands == { [kind |-> c] : c \in CommandKinds \ {"BlockchainEvent"} }

\* the sender, its public key and the message id of the messages about
\* agreement id
SenderOf(id) ==
    IF id = "a1" THEN [From |-> "dev1", PubKey |-> "pk1", MessageId |-> "m1"]
    ELSE IF id = "a2" THEN [From |-> "dev2", PubKey |-> "pk2", MessageId |-> "m2"]
    ELSE [From |-> "dev3", PubKey |-> "pk3", MessageId |-> "m3"]

NewProtocolMessage(kind, id) ==
    [kind |-> kind, AgreementId |-> id, From |-> SenderOf(id).From,
     PubKey |-> SenderOf(id).PubKey, MessageId |-> SenderOf(id).MessageId]

ExtensionMessages ==
    { NewProtocolMessage(x, id) : x \in {"ProducerUpdate", "ConsumerUpdateAck"}, id \in AgIds }
    \cup { NewProtocolMessage("Unknown", ""), NewProtocolMessage("Ambiguous", "a1") }

Replies ==
    { [workType |-> "REPLY", AgreementId |-> id, decision |-> TRUE, key |-> k,
       Address |-> "0xP", Signature |-> "s_p"] : id \in AgIds, k \in {K0, K1, K2} }
    \cup { [workType |-> "REPLY", AgreementId |-> id, decision |-> FALSE, key |-> K0,
            Address |-> "", Signature |-> ""] : id \in AgIds }

WorkerNext ==
    \/ \E w \in DOMAIN wk : Receive(w)
    \/ \E w \in DOMAIN wk, dbErr \in BOOLEAN, signErr \in BOOLEAN : ProcessInitiate(w, dbErr, signErr, FALSE)
    \/ \E w \in DOMAIN wk, dbErr \in BOOLEAN, recErr \in BOOLEAN : ProcessReply(w, dbErr, recErr)
    \/ \E w \in DOMAIN wk : ProcessProducerUpdate(w)
    \/ \E w \in DOMAIN wk : ProcessConsumerUpdateAck(w)
    \/ \E w \in DOMAIN wk : ProcessBCRecorded(w)
    \/ \E w \in DOMAIN wk : ProcessBCTerminated(w)
    \/ \E w \in DOMAIN wk, fail \in UpdateFailures : ProcessAsyncUpdate(w, fail)
    \/ \E w \in DOMAIN wk, writeErr \in BOOLEAN : ProcessAsyncWrite(w, writeErr)

\* the negotiation of agreements against the ledgers K1 and K2
Next ==
    \/ \E k \in {K1, K2}, initErr \in BOOLEAN, dbErr \in BOOLEAN :
          SetBlockchainWritable(k, ConfigA, initErr, dbErr)
    \/ \E k \in {K1, K2} : SetBlockchainClientNotAvailable(k)
    \/ \E cmd \in BlockchainEvents({K1}), w \in DOMAIN wk : RouteCommand(cmd, w)
    \/ \E msg \in ExtensionMessages, w \in DOMAIN wk : RouteExtensionMessage(msg, w)
    \/ \E id \in AgIds, ver \in {1, 2}, w \in DOMAIN wk : RouteMakeAgreement(id, ver, w)
    \/ \E reply \in Replies, w \in DOMAIN wk : RouteReply(reply, w)
    \/ HandleDeferredCommands
    \/ ConsumeMessage
    \/ WorkerNext
    \/ \E w \in DOMAIN wk : ProcessAsyncCancel(w)

Spec == Init /\ [][Next]_vars

\* the ledger client registry under every event that reaches it
NextRegistry ==
    \/ \E k \in LedgerKeys, cfg \in ClientConfigs, initErr \in BOOLEAN, dbErr \in BOOLEAN :
          SetBlockchainWritable(k, cfg, initErr, dbErr)
    \/ \E k \in LedgerKeys : SetBlockchainClientNotAvailable(k)
    \/ \E k \in LedgerKeys : SetBlockchainClientAvailable(k)
    \/ \E k \in LedgerKeys : ReadRegistry(k)
    \/ \E cmd \in BlockchainEvents(LedgerKeys) \cup OtherCommands, w \in DOMAIN wk :
          RouteCommand(cmd, w)
    \/ \E w \in DOMAIN wk : ProcessBCRecorded(w)
    \/ \E w \in DOMAIN wk : ProcessBCTerminated(w)

SpecRegistry == Init /\ [][NextRegistry]_vars

-----------------------------------------------------------------------------
(* The life of one agreement on the ledger K1, from the states the handler  *)
(* is in once the client of K1 has been funded                              *)

PoolWorkers == 2        \* workers of the pool in the specifications below

\* the reply of the producer that accepts on ledger k
PositiveReply(id, k) ==
    [workType |-> "REPLY", AgreementId |-> id, decision |-> TRUE, key |-> k,
     Address |-> "0xP", Signature |-> "s_p"]

\* the registry after the AccountFunded event of K1
FundedRegistry == SetWritableBC(EmptyMap, K1, ConfigA, 1)

\* the store after agreement a1 of version ver was made and the producer
\* accepted it on K1
RepliedStore(ver) ==
    PersistReply(PersistAgreement(MapPut(EmptyMap, "a1", NewAgreement(ver)), FundedRegistry,
                                  "a1", ver, FALSE, FALSE).db,
                 "a1", PositiveReply("a1", K1))

\* K1 funded and no agreement yet; or also a version 2 agreement made and
\* accepted, for which PostReply has deferred the two commands
InitLifecycle ==
    /\ bcState = FundedRegistry
    /\ nextPH = 2
    /\ messages = <<>>
    /\ Work = <<>>
    /\ wk = [w \in 1..PoolWorkers |-> NoWork]
    /\ recorded = {}
    /\ inputs = 0
    /\ PatternManagerIdle
    /\ effects = EmptyMap
    /\ alm = {}
    /\ bcStateLock = "free"
    /\ cmdPC = Idle
    /\ heldPH = [w \in 1..PoolWorkers |-> NilPH]
    /\ \/ /\ agreements = EmptyMap
          /\ deferredCommands = <<>>
          /\ last = [op |-> "SetBlockchainWritable", arg |-> K1, ret |-> TRUE]
       \/ /\ agreements = RepliedStore(2)
          /\ deferredCommands =
                PostReply(RepliedStore(2), FundedRegistry, <<>>, "a1", FALSE, FALSE).defer
          /\ last = [op |-> "PostReply", arg |-> "a1", ret |-> TRUE]

\* the ledger emits the creation and termination events only of agreements
\* written to it
LedgerEvents(rec) ==
    { cmd \in BlockchainEvents({K1}) :
        cmd.raw.AgreementId = "" \/ AlreadyWritten(rec, cmd.raw.AgreementId) }

\* the producer sends its update and its acknowledgement only after it got
\* the consumer update
ProducerMessages(eff) ==
    { msg \in ExtensionMessages :
        msg.AgreementId = "a1" /\ EffectsOf(eff, msg.AgreementId).updates > 0 }

NextLifecycle ==
    \/ \E dbErr \in BOOLEAN : SetBlockchainWritable(K1, ConfigA, FALSE, dbErr)
    \/ SetBlockchainClientNotAvailable(K1)
    \/ \E cmd \in LedgerEvents(recorded), w \in DOMAIN wk : RouteCommand(cmd, w)
    \/ \E msg \in ProducerMessages(effects), w \in DOMAIN wk : RouteExtensionMessage(msg, w)
    \/ \E ver \in {1, 2}, w \in DOMAIN wk : RouteMakeAgreement("a1", ver, w)
    \/ \E k \in {K0, K1}, w \in DOMAIN wk : RouteReply(PositiveReply("a1", k), w)
    \/ HandleDeferredCommands
    \/ ConsumeMessage
    \/ WorkerNext

SpecLifecycle == InitLifecycle /\ [][NextLifecycle]_vars

\* one worker's handling of the item it holds
WorkerStep(w) ==
    \/ Receive(w)
    \/ \E dbErr \in BOOLEAN, signErr \in BOOLEAN : ProcessInitiate(w, dbErr, signErr, FALSE)
    \/ \E dbErr \in BOOLEAN, recErr \in BOOLEAN : ProcessReply(w, dbErr, recErr)
    \/ ProcessProducerUpdate(w)
    \/ ProcessConsumerUpdateAck(w)
    \/ ProcessBCRecorded(w)
    \/ ProcessBCTerminated(w)
    \/ \E fail \in UpdateFailures : ProcessAsyncUpdate(w, fail)
    \/ \E writeErr \in BOOLEAN : ProcessAsyncWrite(w, writeErr)

\* every worker goes on with the item it holds, and the deferred commands
\* are handed over
SpecLifecycleFair ==
    /\ SpecLifecycle
    /\ \A w \in 1..PoolWorkers : WF_vars(WorkerStep(w))
    /\ WF_vars(HandleDeferredCommands)

-----------------------------------------------------------------------------
(* The threads step by step.  The command thread and the workers run        *)
(* concurrently: SetBlockchainWritable is followed through the calls it      *)
(* makes while it holds bcStateLock, and a worker first takes the agreement  *)
(* lock of its item, then obtains the protocol handler of the agreement's    *)
(* ledger from the registry, and then calls it.                              *)

RegistryFree == bcStateLock = "free"

CmdIdle == cmdPC = Idle

\* SetBlockchainWritable up to the call of InitBlockchain: the mutex is taken
\* and the entry is stored with a new protocol handler
BeginSetBlockchainWritable(k, cfg) ==
    /\ CmdIdle
    /\ RegistryFree
    /\ TakeInput
    /\ nextPH <= MaxHandlers
    /\ bcStateLock' = "held"
    /\ cmdPC' = "InitBlockchain"
    /\ bcState' = SetWritableBC(bcState, k, cfg, nextPH)
    /\ nextPH' = nextPH + 1
    /\ last' = [op |-> "NewProtocolHandler", arg |-> k, ret |-> TRUE]
    /\ UNCHANGED <<agreements, deferredCommands, messages, Work, wk, recorded, effects, alm,
                   heldPH>>

\* agreementPH.InitBlockchain(ev) returns; its error is only logged
InitBlockchain(k, initErr) ==
    /\ cmdPC = "InitBlockchain"
    /\ cmdPC' = "updateProducers"
    /\ last' = [op |-> "InitBlockchain", arg |-> k, ret |-> ~initErr]
    /\ UNCHANGED <<bcState, nextPH, agreements, deferredCommands, messages, Work, wk, recorded,
                   inputs, pmVars, effects, alm, bcStateLock, heldPH>>

\* c.updateProducers() and the return of SetBlockchainWritable, which gives
\* the mutex back
EndSetBlockchainWritable(k, dbErr) ==
    /\ cmdPC = "updateProducers"
    /\ Len(updateProducers(agreements, deferredCommands, dbErr)) <= MaxDeferred
    /\ deferredCommands' = updateProducers(agreements, deferredCommands, dbErr)
    /\ bcStateLock' = "free"
    /\ cmdPC' = Idle
    /\ last' = [op |-> "SetBlockchainWritable", arg |-> k, ret |-> ~dbErr]
    /\ UNCHANGED <<bcState, nextPH, agreements, messages, Work, wk, recorded, inputs, pmVars, effects,
                   alm, heldPH>>

\* the item of worker w makes it call a protocol handler taken from the
\* registry: the positive reply to a version 1 agreement (PostReply), or the
\* update of a version 2 agreement that waits for it (UpdateProducer)
CallsHandler(w) ==
    LET id == wk[w].AgreementId
    IN  /\ FoundUnarchived(agreements, id)
        /\ \/ /\ wk[w].workType = "REPLY"
              /\ wk[w].decision
              /\ ~AlreadyReceivedReply(agreements[id])
              /\ agreements[id].AgreementProtocolVersion < 2
           \/ /\ wk[w].workType = "ASYNC_UPDATE"
              /\ AsyncUpdateNeeded(agreements[id])

\* the worker is at the start of an item it holds the agreement lock of
AtItem(w) ==
    /\ w \in alm
    /\ heldPH[w] = NilPH
    /\ RegistryFree

\* an item that calls no protocol handler is handled in one step
HandleItem(w) ==
    /\ AtItem(w)
    /\ ~CallsHandler(w)
    /\ \/ \E dbErr \in BOOLEAN : ProcessReply(w, dbErr, FALSE)
       \/ ProcessProducerUpdate(w)
       \/ ProcessConsumerUpdateAck(w)
       \/ ProcessAsyncUpdate(w, "none")
       \/ \E writeErr \in BOOLEAN : ProcessAsyncWrite(w, writeErr)

\* PostReply for a version 1 agreement, up to the return of
\* AgreementProtocolHandler: the reply is stored, the agreement read and the
\* handler of its ledger obtained
PostReplyGetHandler(w, dbErr) ==
    /\ AtItem(w)
    /\ CallsHandler(w)
    /\ wk[w].workType = "REPLY"
    /\ LET id == wk[w].AgreementId
           db1 == PersistReply(agreements, id, wk[w])
           k == GetKnownBlockchain(db1[id])
           aph == AgreementProtocolHandler(bcState, k.type, k.name, k.org)
       IN  /\ agreements' = db1
           /\ IF dbErr
              THEN /\ Release(w)
                   /\ last' = [op |-> "PostReply", arg |-> id, ret |-> TRUE]
                   /\ UNCHANGED <<bcState, heldPH>>
              ELSE IF aph = NilPH
              THEN /\ bcState' = AgreementProtocolHandlerBC(bcState, k.type, k.name, k.org)
                   /\ Release(w)
                   /\ last' = [op |-> "PostReply", arg |-> id, ret |-> TRUE]
                   /\ UNCHANGED heldPH
              ELSE /\ bcState' = AgreementProtocolHandlerBC(bcState, k.type, k.name, k.org)
                   /\ heldPH' = [heldPH EXCEPT ![w] = aph]
                   /\ last' = [op |-> "AgreementProtocolHandler", arg |-> id, ret |-> TRUE]
                   /\ UNCHANGED <<wk, alm>>
    /\ UNCHANGED <<nextPH, deferredCommands, messages, Work, recorded, inputs, pmVars, effects,
                   bcStateLock, cmdPC>>

\* aph.RecordAgreement(...) on the handler obtained, and the return of PostReply
PostReplyRecordAgreement(w, recErr) ==
    /\ wk[w].workType = "REPLY"
    /\ heldPH[w] # NilPH
    /\ recorded' = IF recErr THEN recorded
                   ELSE recorded \cup {[AgreementId |-> wk[w].AgreementId, ph |-> heldPH[w]]}
    /\ heldPH' = [heldPH EXCEPT ![w] = NilPH]
    /\ Release(w)
    /\ last' = [op |-> "RecordAgreement", arg |-> wk[w].AgreementId, ret |-> ~recErr]
    /\ UNCHANGED <<bcState, nextPH, agreements, deferredCommands, messages, Work, inputs, pmVars,
                   effects, bcStateLock, cmdPC>>

\* UpdateProducer up to the return of AgreementProtocolHandler
UpdateProducerGetHandler(w, fail) ==
    /\ AtItem(w)
    /\ CallsHandler(w)
    /\ wk[w].workType = "ASYNC_UPDATE"
    /\ LET id == wk[w].AgreementId
           k == GetKnownBlockchain(agreements[id])
           ph == AgreementProtocolHandler(bcState, k.type, k.name, k.org)
       IN  IF fail = "endpoint"
           THEN /\ Release(w)
                /\ last' = [op |-> "UpdateProducer", arg |-> id, ret |-> FALSE]
                /\ UNCHANGED <<bcState, heldPH>>
           ELSE IF ph = NilPH
           THEN /\ bcState' = AgreementProtocolHandlerBC(bcState, k.type, k.name, k.org)
                /\ Release(w)
                /\ last' = [op |-> "UpdateProducer", arg |-> id, ret |-> FALSE]
                /\ UNCHANGED heldPH
           ELSE /\ bcState' = AgreementProtocolHandlerBC(bcState, k.type, k.name, k.org)
                /\ heldPH' = [heldPH EXCEPT ![w] = ph]
                /\ last' = [op |-> "AgreementProtocolHandler", arg |-> id, ret |-> TRUE]
                /\ UNCHANGED <<wk, alm>>
    /\ UNCHANGED <<nextPH, agreements, deferredCommands, messages, Work, recorded, inputs, pmVars,
                   effects, bcStateLock, cmdPC>>

\* csph.SendBlockchainConsumerUpdate(...) on the handler obtained, then the
\* signature and AgreementBlockchainUpdate, and the return of UpdateProducer
UpdateProducerSend(w, fail) ==
    /\ wk[w].workType = "ASYNC_UPDATE"
    /\ heldPH[w] # NilPH
    /\ LET id == wk[w].AgreementId
       IN  /\ EffectsOf(effects, id).updates < MaxUpdates
           /\ effects' = IF fail = "send" THEN effects ELSE UpdateSent(effects, id)
           /\ agreements' = IF fail = "none"
                            THEN AgreementBlockchainUpdate(agreements, id, "csig", "hash", "", "")
                            ELSE agreements
           /\ last' = [op |-> "UpdateProducer", arg |-> id, ret |-> fail = "none"]
    /\ heldPH' = [heldPH EXCEPT ![w] = NilPH]
    /\ Release(w)
    /\ UNCHANGED <<bcState, nextPH, deferredCommands, messages, Work, recorded, inputs, pmVars,
                   bcStateLock, cmdPC>>

\* the store after agreement a1 of version 1 was made
MadeStore ==
    PersistAgreement(MapPut(EmptyMap, "a1", NewAgreement(1)), FundedRegistry, "a1", 1,
                     FALSE, FALSE).db

\* K1 funded and a1 made as a version 1 agreement; or a1 made as a version 2
\* agreement and accepted, with the two commands PostReply deferred
InitConcurrent ==
    /\ bcState = FundedRegistry
    /\ nextPH = 2
    /\ messages = <<>>
    /\ Work = <<>>
    /\ wk = [w \in 1..PoolWorkers |-> NoWork]
    /\ recorded = {}
    /\ inputs = 0
    /\ PatternManagerIdle
    /\ effects = EmptyMap
    /\ alm = {}
    /\ bcStateLock = "free"
    /\ cmdPC = Idle
    /\ heldPH = [w \in 1..PoolWorkers |-> NilPH]
    /\ \/ /\ agreements = MadeStore
          /\ deferredCommands = <<>>
          /\ last = [op |-> "PersistAgreement", arg |-> "a1", ret |-> TRUE]
       \/ /\ agreements = RepliedStore(2)
          /\ deferredCommands =
                PostReply(RepliedStore(2), FundedRegistry, <<>>, "a1", FALSE, FALSE).defer
          /\ last = [op |-> "PostReply", arg |-> "a1", ret |-> TRUE]

NextConcurrent ==
    \/ BeginSetBlockchainWritable(K1, ConfigA)
    \/ \E initErr \in BOOLEAN : InitBlockchain(K1, initErr)
    \/ \E dbErr \in BOOLEAN : EndSetBlockchainWritable(K1, dbErr)
    \/ CmdIdle /\ RegistryFree /\ SetBlockchainClientNotAvailable(K1)
    \/ \E w \in DOMAIN wk : CmdIdle /\ RouteReply(PositiveReply("a1", K1), w)
    \/ \E msg \in ProducerMessages(effects), w \in DOMAIN wk :
          CmdIdle /\ RouteExtensionMessage(msg, w)
    \/ CmdIdle /\ HandleDeferredCommands
    \/ ConsumeMessage
    \/ \E w \in DOMAIN wk : Receive(w)
    \/ \E w \in DOMAIN wk : LockAgreement(w)
    \/ \E w \in DOMAIN wk : HandleItem(w)
    \/ \E w \in DOMAIN wk, dbErr \in BOOLEAN : PostReplyGetHandler(w, dbErr)
    \/ \E w \in DOMAIN wk, recErr \in BOOLEAN : PostReplyRecordAgreement(w, recErr)
    \/ \E w \in DOMAIN wk, fail \in {"none", "endpoint"} : UpdateProducerGetHandler(w, fail)
    \/ \E w \in DOMAIN wk, fail \in {"none", "send", "sign"} : UpdateProducerSend(w, fail)

SpecConcurrent == InitConcurrent /\ [][NextConcurrent]_vars

-----------------------------------------------------------------------------
(* Properties of PostReply and of the ClientFunded fan-out *)

\* the commands appended to the deferred queue q to give q2
Added(q, q2) == SubSeq(q2, Len(q) + 1, Len(q2))

CountIn(seq, x) == Cardinality({ i \in 1..Len(seq) : seq[i] = x })

\* updateProducers selects this agreement
WaitingForBC(db, id) ==
    /\ id \in DOMAIN db
    /\ ~db[id].Archived
    /\ db[id].AgreementProtocolVersion = 2
    /\ db[id].BCUpdateAckTime = 0

C1_WitnessNotWritable ==
    /\ last.op = "PostReply"
    /\ last.arg \in DOMAIN agreements
    /\ agreements[last.arg].AgreementProtocolVersion = 2
    /\ ~PostReplyWritable(bcState, agreements[last.arg])
    /\ deferredCommands = <<>>
    /\ messages = <<NewBCContainerMessage(GetKnownBlockchain(agreements[last.arg]))>>

-----------------------------------------------------------------------------
(* Properties of the command router *)

\* C3 as stated: a blockchain event is accepted exactly when the ledger
\* instance named by its own type, name and org is ready, and the other
\* routed commands are accepted in every registry state.
C3_AcceptedIffOwnLedgerReady ==
    [][\A cmd \in BlockchainEvents(LedgerKeys) \cup OtherCommands, w \in DOMAIN wk :
          RouteCommand(cmd, w)
          => IF cmd.kind = "BlockchainEvent"
             THEN /\ last'.ret = IsBlockchainReady(bcState, cmd.key.type, cmd.key.name,
                                                   cmd.key.org)
                  /\ ~last'.ret => wk' = wk /\ Work' = Work
             ELSE cmd.kind # "Unknown" => last'.ret
      ]_vars

\* C3, amended: a blockchain event is accepted exactly when the registry
\* holds a ready entry of type Ethereum under the event's name and org,
\* whatever the event's own type; a dropped event produces no work item; the
\* other routed commands are accepted in every registry state.
C3_AcceptedIffEthereumLedgerReady ==
    [][\A cmd \in BlockchainEvents(LedgerKeys) \cup OtherCommands, w \in DOMAIN wk :
          RouteCommand(cmd, w)
          => IF cmd.kind = "BlockchainEvent"
             THEN /\ last'.ret = IsBlockchainReady(bcState, "ethereum", cmd.key.name,
                                                   cmd.key.org)
                  /\ ~last'.ret => wk' = wk /\ Work' = Work
             ELSE cmd.kind # "Unknown" => last'.ret
      ]_vars

\* a blockchain event has just been dropped although a ledger instance of
\* another type is ready under its name and org
C3_Witness ==
    /\ last.op = "AcceptCommand"
    /\ last.arg.kind = "BlockchainEvent"
    /\ ~last.ret
    /\ K2 \in Entries(bcState)
    /\ Entries(bcState) = {K2}
    /\ \A w \in DOMAIN wk : wk[w] = NoWork

\* C4: for an accepted blockchain event HandleBlockchainEvent hands the
\* workers exactly one item carrying the event's agreement id, BC_RECORDED
\* for AgreementCreated and BC_TERMINATED for either termination, and nothing
\* for any other or undecodable event, whether or not the store holds the
\* agreement; a worker that handles such an item for an agreement the store
\* does not hold changes no agreement.
C4_BlockchainEventDemux ==
    [][/\ \A cmd \in BlockchainEvents(LedgerKeys), w \in DOMAIN wk :
             (RouteCommand(cmd, w) /\ last'.ret)
             => /\ Work' = Work
                /\ IF cmd.raw.kind = "AgreementCreated"
                   THEN wk' = [wk EXCEPT ![w] =
                                  [workType |-> "BC_RECORDED",
                                   AgreementId |-> cmd.raw.AgreementId]]
                   ELSE IF cmd.raw.kind \in {"ProducerTermination", "ConsumerTermination"}
                   THEN wk' = [wk EXCEPT ![w] =
                                  [workType |-> "BC_TERMINATED",
                                   AgreementId |-> cmd.raw.AgreementId]]
                   ELSE wk' = wk
                /\ agreements' = agreements
       /\ \A w \in DOMAIN wk :
             (/\ (ProcessBCRecorded(w) \/ ProcessBCTerminated(w))
              /\ wk[w].AgreementId \notin DOMAIN agreements)
             => agreements' = agreements
      ]_vars

\* a worker holds the BC_RECORDED item of an accepted AgreementCreated event
\* whose agreement the store does not hold, while the store holds another one
C4_Witness ==
    /\ last.op = "AcceptCommand"
    /\ last.ret
    /\ agreements # EmptyMap
    /\ \E w \in DOMAIN wk :
          /\ wk[w].workType = "BC_RECORDED"
          /\ wk[w].AgreementId \notin DOMAIN agreements

-----------------------------------------------------------------------------
(* Properties of the ledger client registry *)

\* what the four accessors return for a ledger instance
RegistryView(bc, k) ==
    <<IsBlockchainReady(bc, k.type, k.name, k.org),
      IsBlockchainWritable(bc, k.type, k.name, k.org),
      AgreementProtocolHandler(bc, k.type, k.name, k.org),
      getColonusDir(bc, AgreementOn(k))>>

\* the accessors report the ledger instance as not available
Unavailable(bc, k) == RegistryView(bc, k) = <<FALSE, FALSE, NilPH, "">>

\* C5: every entry of the registry satisfies writable => ready, and has a
\* handler exactly when it is ready.
C5_ClientStateInvariant ==
    \A k \in Entries(bcState) :
       /\ EntryOf(bcState, k).writable => EntryOf(bcState, k).ready
       /\ EntryOf(bcState, k).agreementPH # NilPH <=> EntryOf(bcState, k).ready

\* two ledger instances have been made writable, one of them was removed
\* and the registry has been read since
C5_Witness ==
    /\ last.op = "ReadRegistry"
    /\ nextPH = 3
    /\ inputs = 3
    /\ Cardinality(Entries(bcState)) = 1

\* C6: SetBlockchainWritable leaves the entry of its own ledger instance
\* ready and writable with a handler and the event's endpoint, port and
\* directory, whether or not the entry existed, and changes nothing of any
\* other ledger instance.
C6_SetWritableUpsert ==
    [][\A k \in LedgerKeys, cfg \in ClientConfigs, initErr \in BOOLEAN, dbErr \in BOOLEAN :
          SetBlockchainWritable(k, cfg, initErr, dbErr)
          => /\ k \in Entries(bcState')
             /\ EntryOf(bcState', k).ready
             /\ EntryOf(bcState', k).writable
             /\ EntryOf(bcState', k).agreementPH # NilPH
             /\ EntryOf(bcState', k).service = cfg.service
             /\ EntryOf(bcState', k).servicePort = cfg.servicePort
             /\ EntryOf(bcState', k).colonusDir = cfg.colonusDir
             /\ IsBlockchainWritable(bcState', k.type, k.name, k.org)
             /\ getColonusDir(bcState', AgreementOn(k)) = cfg.colonusDir
             /\ \A k2 \in LedgerKeys \ {k} :
                   /\ RegistryView(bcState', k2) = RegistryView(bcState, k2)
                   /\ k2 \in Entries(bcState') <=> k2 \in Entries(bcState)
                   /\ k2 \in Entries(bcState) => EntryOf(bcState', k2) = EntryOf(bcState, k2)
      ]_vars

\* K1 was made writable, then K3, then K1 again with other container details
C6_Witness ==
    /\ last.op = "SetBlockchainWritable"
    /\ last.arg = K1
    /\ inputs = 3
    /\ nextPH = 4
    /\ Entries(bcState) = {K1, K3}
    /\ EntryOf(bcState, K1).agreementPH = 3
    /\ EntryOf(bcState, K3).agreementPH = 2

\* C7: a ledger instance other than the empty triple that has no entry is
\* reported as not available by the four accessors, from the start and after
\* SetBlockchainClientNotAvailable, and stays so under every step that is
\* not a SetBlockchainWritable of the same instance;
\* SetBlockchainClientNotAvailable changes what the accessors return for no
\* other instance.
C7_UnavailableUntilWritable ==
    /\ \A k \in LedgerKeys \ {K0} : Unavailable(bcState, k)
    /\ [][/\ \A k \in LedgerKeys :
                SetBlockchainClientNotAvailable(k)
                => /\ k # K0 => Unavailable(bcState', k)
                   /\ \A k2 \in LedgerKeys \ {k} :
                         RegistryView(bcState', k2) = RegistryView(bcState, k2)
          /\ \A k \in LedgerKeys \ {K0} :
                (/\ Unavailable(bcState, k)
                 /\ ~\E cfg \in ClientConfigs, initErr \in BOOLEAN, dbErr \in BOOLEAN :
                        SetBlockchainWritable(k, cfg, initErr, dbErr))
                => Unavailable(bcState', k)
         ]_vars

\* K1 and K3 were made writable and K1 has just been removed
C7_Witness ==
    /\ last.op = "SetBlockchainClientNotAvailable"
    /\ last.arg = K1
    /\ inputs = 3
    /\ nextPH = 3
    /\ Entries(bcState) = {K3}
    /\ Unavailable(bcState, K1)
    /\ ~Unavailable(bcState, K3)

\* C8: the empty triple always gets the generic handler from
\* AgreementProtocolHandler, and no entry of the registry is bound to it.
C8_GenericHandler ==
    /\ AgreementProtocolHandler(bcState, "", "", "") = genericAgreementPH
    /\ \A k \in Entries(bcState) : EntryOf(bcState, k).agreementPH # genericAgreementPH

\* an entry is registered under the empty triple
C8_Witness ==
    /\ K0 \in Entries(bcState)
    /\ EntryOf(bcState, K0).ready
    /\ last.op = "ReadRegistry"
    /\ last.arg = K0
    /\ last.ret[3] = genericAgreementPH
    /\ last.ret[1]

-----------------------------------------------------------------------------
(* Properties of PostReply's results *)

\* C9 as stated: whenever PostReply returns no error for a version 1
\* agreement, the agreement has been recorded on the ledger.
C9_V1SuccessMeansRecorded ==
    (/\ last.op = "PostReply"
     /\ last.ret
     /\ last.arg \in DOMAIN agreements
     /\ agreements[last.arg].AgreementProtocolVersion = 1)
    => \E r \in recorded : r.AgreementId = last.arg

-----------------------------------------------------------------------------
(* Properties of the deferred queue and of the agreement workers *)

\* in seq every AsyncUpdate is directly followed by the AsyncWrite of the
\* same agreement
UpdateThenWrite(seq) ==
    \A i \in 1..Len(seq) :
        seq[i].workType = "ASYNC_UPDATE"
        => /\ i < Len(seq)
           /\ seq[i + 1] = AsyncWriteAgreement(seq[i].AgreementId)

\* C11: HandleDeferredCommands hands the whole deferred queue to the work
\* channel and leaves the queue empty; the commands are sent one at a time
\* from the head, each to a worker that was idle, and nothing else puts a
\* command into or takes one out of the batch being sent; in the queue and
\* in the batch the AsyncUpdate of an agreement comes directly before its
\* AsyncWrite.
C11_DeferredBatchInOrder ==
    /\ [](UpdateThenWrite(deferredCommands) /\ UpdateThenWrite(Work))
    /\ [][IF HandleDeferredCommands
          THEN /\ Work' = deferredCommands
               /\ deferredCommands' = <<>>
          ELSE Work' # Work
               => /\ Work # <<>>
                  /\ Work' = Tail(Work)
                  /\ \E w \in DOMAIN wk : wk[w] = NoWork /\ wk'[w] = Head(Work)
         ]_vars

\* a batch of an AsyncUpdate and an AsyncWrite has been sent completely: the
\* worker holds the AsyncWrite, the last command of the batch
C11_Witness ==
    /\ Work = <<>>
    /\ deferredCommands = <<>>
    /\ last.op = "UpdateProducer"
    /\ \E w \in DOMAIN wk : wk[w] = AsyncWriteAgreement(last.arg)

\* what a step leaves alone when it changes nothing of the agreements, the
\* ledger, the queues and the messages sent
NothingDone ==
    /\ agreements' = agreements
    /\ recorded' = recorded
    /\ effects' = effects
    /\ messages' = messages
    /\ deferredCommands' = deferredCommands

C13_WriteAfterAck ==
    /\ [](\A id \in DOMAIN agreements :
             (agreements[id].AgreementProtocolVersion = 2 /\ AlreadyWritten(recorded, id))
             => agreements[id].BCUpdateAckTime # 0)
    /\ [][\A id \in DOMAIN agreements :
             EffectsOf(effects', id).writes > EffectsOf(effects, id).writes
             => agreements[id].BCUpdateAckTime # 0]_vars

\* the AsyncWrite of a version 2 agreement has written it to the ledger
C13_Witness ==
    /\ last.op = "AsyncWrite"
    /\ last.ret
    /\ agreements[last.arg].AgreementProtocolVersion = 2
    /\ agreements[last.arg].BCUpdateAckTime # 0
    /\ EffectsOf(effects, last.arg).writes = 1
    /\ AlreadyWritten(recorded, last.arg)

\* C14 as stated: a finalized agreement has a proposal hash, a consumer
\* signature and a producer signature.
C14_FinalizedHasHashAndSignatures ==
    \A id \in DOMAIN agreements :
        agreements[id].AgreementFinalizedTime > 0
        => /\ agreements[id].ProposalHash # ""
           /\ agreements[id].ConsumerProposalSig # ""
           /\ agreements[id].ProposalSig # ""

\* an AgreementCreated event of the ledger for agreement id has reached the
\* command router
CreatedEventArrived(id) ==
    /\ last.op = "AcceptCommand"
    /\ last.arg.kind = "BlockchainEvent"
    /\ last.arg.raw.kind = "AgreementCreated"
    /\ last.arg.raw.AgreementId = id

\* agreement id is finalized or archived
Settled(id) ==
    /\ id \in DOMAIN agreements
    /\ \/ agreements[id].AgreementFinalizedTime > 0
       \/ agreements[id].Archived

\* C15 as stated: after an AgreementCreated event for a known agreement has
\* reached the router, the agreement is eventually finalized or archived.
C15_CreatedEventFinalizes ==
    \A id \in AgIds :
        [](CreatedEventArrived(id) /\ id \in DOMAIN agreements => <>Settled(id))

\* C16: a BC_RECORDED item for an agreement that is finalized or archived
\* changes no agreement and sends nothing, and no step changes a field of an
\* archived agreement.
C16_LateRecordedIsNoOp ==
    [][/\ \A w \in DOMAIN wk :
             (/\ ProcessBCRecorded(w)
              /\ wk[w].AgreementId \in DOMAIN agreements
              /\ \/ agreements[wk[w].AgreementId].Archived
                 \/ agreements[wk[w].AgreementId].AgreementFinalizedTime # 0)
             => NothingDone
       /\ \A id \in DOMAIN agreements :
             agreements[id].Archived => agreements'[id] = agreements[id]
      ]_vars

\* a BC_RECORDED item for an agreement archived after a ledger cancellation
\* has been dropped
C16_Witness ==
    /\ last.op = "BCRecorded"
    /\ ~last.ret
    /\ last.arg \in DOMAIN agreements
    /\ agreements[last.arg].Archived
    /\ agreements[last.arg].TerminatedReason = AB_CANCEL_DISCOVERED

\* a BC_RECORDED item for a finalized agreement has been dropped
C16_WitnessFinalized ==
    /\ last.op = "BCRecorded"
    /\ ~last.ret
    /\ last.arg \in DOMAIN agreements
    /\ ~agreements[last.arg].Archived
    /\ agreements[last.arg].AgreementFinalizedTime # 0

\* C17: no two workers hold the agreement lock for items of the same
\* agreement at the same time, and a worker finishes an item only while it
\* holds the agreement lock of that item.
C17_OneWorkerPerAgreement ==
    /\ [](\A v \in alm, w \in alm : v # w => wk[v].AgreementId # wk[w].AgreementId)
    /\ [][\A w \in DOMAIN wk : (wk[w] # NoWork /\ wk'[w] = NoWork) => w \in alm]_vars

\* a worker is in the middle of an item of an agreement, between obtaining
\* the protocol handler and calling it, while another worker holds an item of
\* the same agreement and waits for the agreement lock
C17_Witness ==
    \E v \in alm, w \in DOMAIN wk \ alm :
        /\ heldPH[v] # NilPH
        /\ wk[w] # NoWork
        /\ wk[w].AgreementId = wk[v].AgreementId

\* C18 as stated: a send on the work channel never blocks, so the command
\* thread is never left with items still to send while every worker is busy.
C18_EnqueueNeverBlocks ==
    ~(Work # <<>> /\ \A w \in DOMAIN wk : wk[w] # NoWork)

\* an outbound call is in progress: the ledger initialization made by
\* SetBlockchainWritable, or a worker's call of a protocol handler
OutboundIO ==
    \/ cmdPC = "InitBlockchain"
    \/ \E w \in DOMAIN wk : heldPH[w] # NilPH

\* C19 as stated: the registry mutex is free whenever an outbound call is in
\* progress.
C19_NoLockAcrossIO == OutboundIO => RegistryFree

\* worker w calls the protocol handler it obtained
UsesHandler(w) ==
    \/ \E recErr \in BOOLEAN : PostReplyRecordAgreement(w, recErr)
    \/ \E fail \in {"none", "send", "sign"} : UpdateProducerSend(w, fail)

\* the handler the registry binds to the ledger of the agreement of w's item
BoundHandler(w) ==
    LET k == GetKnownBlockchain(agreements[wk[w].AgreementId])
    IN  AgreementProtocolHandler(bcState, k.type, k.name, k.org)

\* C20 as stated: when a worker calls a handler it obtained from the
\* registry, that handler is still the one the registry binds to the ledger:
\* the entry was neither removed nor given another handler in between.
C20_HandlerUsedWhileBound ==
    [][\A w \in DOMAIN wk : UsesHandler(w) => heldPH[w] = BoundHandler(w)]_vars

\* C21: a message whose payload passes the producer update validation puts
\* exactly one PRODUCER_UPDATE item on the work channel; otherwise one that
\* passes the acknowledgement validation puts exactly one CONSUMER_UPDATE_ACK
\* item there; any other message returns an error and queues nothing.  The
\* item carries the sender, the public key and the id of the message, and the
\* registry plays no part.
C21_ExtensionMessageClassified ==
    [][\A msg \in ExtensionMessages, w \in DOMAIN wk :
          RouteExtensionMessage(msg, w)
          => /\ bcState' = bcState
             /\ Work' = Work
             /\ deferredCommands' = deferredCommands
             /\ IF ValidateBlockchainProducerUpdate(msg)
                THEN /\ last'.ret
                     /\ wk' = [wk EXCEPT ![w] =
                                 [workType |-> "PRODUCER_UPDATE", AgreementId |-> msg.AgreementId,
                                  SenderId |-> msg.From, SenderPubKey |-> msg.PubKey,
                                  MessageId |-> msg.MessageId]]
                ELSE IF ValidateBlockchainConsumerUpdateAck(msg)
                THEN /\ last'.ret
                     /\ wk' = [wk EXCEPT ![w] =
                                 [workType |-> "CONSUMER_UPDATE_ACK",
                                  AgreementId |-> msg.AgreementId,
                                  SenderId |-> msg.From, SenderPubKey |-> msg.PubKey,
                                  MessageId |-> msg.MessageId]]
                ELSE /\ ~last'.ret
                     /\ wk' = wk
      ]_vars

\* a message that passes both validations has been queued as a producer
\* update, with its sender, key and message id, while the registry holds no
\* entry
C21_Witness ==
    /\ last.op = "HandleExtensionMessage"
    /\ last.arg = "Ambiguous"
    /\ last.ret
    /\ bcState = EmptyMap
    /\ \E w \in DOMAIN wk :
          wk[w] = [workType |-> "PRODUCER_UPDATE", AgreementId |-> "a1", SenderId |-> "dev1",
                   SenderPubKey |-> "pk1", MessageId |-> "m1"]

-----------------------------------------------------------------------------
(* Termination: agreements with and without a recorded ledger, under
   termination requests, negative replies and proposals that cannot be sent *)

TerminationReasons ==
    {TERM_REASON_POLICY_CHANGED, TERM_REASON_NOT_FINALIZED_TIMEOUT,
     TERM_REASON_NO_DATA_RECEIVED, TERM_REASON_NO_REPLY, TERM_REASON_USER_REQUESTED,
     TERM_REASON_NEGATIVE_REPLY, TERM_REASON_CANCEL_DISCOVERED,
     TERM_REASON_CANCEL_FORCED_UPGRADE, TERM_REASON_CANCEL_BC_WRITE_FAILED,
     TERM_REASON_NODE_HEARTBEAT, TERM_REASON_AG_MISSING}

\* reasons GetTerminationCode has no case for
OtherReasons == {"", "term_reason_no_reply", "Unknown"}

NegativeReply(id) ==
    [workType |-> "REPLY", AgreementId |-> id, decision |-> FALSE, key |-> K0,
     Address |-> "", Signature |-> ""]

IsCancelOf(item, id) ==
    item.workType \in {"AGREEMENT_TIMEOUT", "ASYNC_CANCEL"} /\ item.AgreementId = id

\* a termination of the agreement is with a worker, on the work channel or
\* on the deferred queue; the governance asks for the termination of an
\* agreement once
TerminationInProgress(id) ==
    \/ \E w \in DOMAIN wk : IsCancelOf(wk[w], id)
    \/ \E i \in 1..Len(Work) : IsCancelOf(Work[i], id)
    \/ \E i \in 1..Len(deferredCommands) : IsCancelOf(deferredCommands[i], id)

\* the version 1 agreement a1 has a positive reply naming ledger K1 recorded
\* and PostReply has run for it
InitTermination ==
    /\ nextPH = 2
    /\ Work = <<>>
    /\ wk = [w \in 1..PoolWorkers |-> NoWork]
    /\ inputs = 0
    /\ PatternManagerIdle
    /\ effects = EmptyMap
    /\ alm = {}
    /\ bcStateLock = "free"
    /\ cmdPC = Idle
    /\ heldPH = [w \in 1..PoolWorkers |-> NilPH]
    /\ LET r == PostReply(RepliedStore(1), FundedRegistry, <<>>, "a1", FALSE, FALSE)
       IN  /\ agreements = RepliedStore(1)
           /\ bcState = r.bc
           /\ deferredCommands = r.defer
           /\ messages = r.msgs
           /\ recorded = r.rec
           /\ last = [op |-> "PostReply", arg |-> "a1", ret |-> ~r.err]

TerminationWorkerStep(w) ==
    \/ Receive(w)
    \/ \E sendErr \in BOOLEAN : ProcessInitiate(w, FALSE, FALSE, sendErr)
    \/ ProcessReply(w, FALSE, FALSE)
    \/ ProcessCancel(w)
    \/ ProcessAsyncCancel(w)

NextTermination ==
    \/ SetBlockchainWritable(K1, ConfigA, FALSE, FALSE)
    \/ SetBlockchainClientNotAvailable(K1)
    \/ \E w \in DOMAIN wk : RouteMakeAgreement("a2", 1, w)
    \/ \E id \in AgIds, w \in DOMAIN wk : RouteReply(NegativeReply(id), w)
    \/ \E id \in AgIds, w \in DOMAIN wk :
          ~TerminationInProgress(id) /\ RouteCancel(id, TERM_REASON_USER_REQUESTED, w)
    \/ HandleDeferredCommands
    \/ \E w \in DOMAIN wk : TerminationWorkerStep(w)

SpecTermination == InitTermination /\ [][NextTermination]_vars

\* every worker goes on with the item it holds, and the deferred commands
\* are handed over
SpecTerminationFair ==
    /\ SpecTermination
    /\ \A w \in 1..PoolWorkers : WF_vars(TerminationWorkerStep(w))
    /\ WF_vars(HandleDeferredCommands)

-----------------------------------------------------------------------------
(* Termination of a replied agreement of either protocol version, for every
   reason the governance can give *)

InitReasons ==
    /\ nextPH = 2
    /\ Work = <<>>
    /\ wk = [w \in 1..PoolWorkers |-> NoWork]
    /\ inputs = 0
    /\ PatternManagerIdle
    /\ effects = EmptyMap
    /\ alm = {}
    /\ bcStateLock = "free"
    /\ cmdPC = Idle
    /\ heldPH = [w \in 1..PoolWorkers |-> NilPH]
    /\ \E ver \in {1, 2} :
          LET r == PostReply(RepliedStore(ver), FundedRegistry, <<>>, "a1", FALSE, FALSE)
          IN  /\ agreements = RepliedStore(ver)
              /\ bcState = r.bc
              /\ deferredCommands = r.defer
              /\ messages = r.msgs
              /\ recorded = r.rec
              /\ last = [op |-> "PostReply", arg |-> "a1", ret |-> ~r.err]

NextReasons ==
    \/ SetBlockchainWritable(K1, ConfigA, FALSE, FALSE)
    \/ SetBlockchainClientNotAvailable(K1)
    \/ \E reason \in TerminationReasons \cup OtherReasons, w \in DOMAIN wk :
          ~TerminationInProgress("a1") /\ RouteCancel("a1", reason, w)
    \/ HandleDeferredCommands
    \/ \E w \in DOMAIN wk : Receive(w)
    \/ \E w \in DOMAIN wk : ProcessCancel(w)
    \/ \E w \in DOMAIN wk : ProcessAsyncCancel(w)
    \/ \E w \in DOMAIN wk : ProcessAsyncUpdate(w, "none")
    \/ \E w \in DOMAIN wk : ProcessAsyncWrite(w, FALSE)

SpecReasons == InitReasons /\ [][NextReasons]_vars

-----------------------------------------------------------------------------
(* The pattern manager under every served set, every set of defined
   patterns, every iteration order and every file-system error *)

ServedPairs ==
    {[Org |-> "o1", Pattern |-> "p1"], [Org |-> "o1", Pattern |-> "p2"],
     [Org |-> "o2", Pattern |-> "p1"]}

ServedSets == SUBSET ServedPairs

\* the patterns an org can have on the exchange, keyed by "org/name"
DefinedMaps(org) ==
    UNION {[ids -> Contents] : ids \in SUBSET {<<org, name>> : name \in PatternNames}}

\* the orders in which a range over a map can yield its keys
Orders(keys) ==
    {order \in [1..Cardinality(keys) -> keys] :
        \A i \in DOMAIN order, j \in DOMAIN order : i # j => order[i] # order[j]}

\* the file-system faults of one call of UpdatePatternPolicies: none, or one
\* kind of operation failing
Faults ==
    {f \in [delErr : BOOLEAN, delFileErr : FailurePoints, createErr : FailurePoints] :
        /\ f.delErr => (f.delFileErr = 0 /\ f.createErr = 0)
        /\ f.delFileErr # 0 => f.createErr = 0}

SetCurrentPatterns(servedPatterns, delErr) ==
    /\ LET r == SetCurrentPatternsOn(PmState(OrgPatterns, policyFiles), servedPatterns, delErr)
           again == pmLast.stage = 2 /\ servedPatterns = pmLast.served
       IN  /\ OrgPatterns' = r.pm
           /\ policyFiles' = r.files
           /\ pmLast' = [op |-> "SetCurrentPatterns",
                         served |-> servedPatterns,
                         org |-> IF again THEN pmLast.org ELSE "",
                         defined |-> IF again THEN pmLast.defined ELSE EmptyMap,
                         err |-> r.err,
                         failed |-> r.failed,
                         at |-> r.at,
                         logged |-> r.logged,
                         creates |-> r.creates,
                         deletes |-> r.deletes,
                         stage |-> IF again THEN 3 ELSE 1,
                         clean |-> IF again THEN pmLast.clean ELSE ~r.logged,
                         clock |-> pmLast.clock + 1]
    /\ UNCHANGED handlerVars

UpdatePatternPolicies(org, definedPatterns, order, loopVar, delErr, delFileErr, createErr) ==
    /\ LET r == UpdatePatternPoliciesOn(PmState(OrgPatterns, policyFiles), org,
                                        definedPatterns, order, pmLast.clock + 1, loopVar,
                                        delErr, delFileErr, createErr)
           first == pmLast.stage = 1
           again == /\ pmLast.stage = 3
                    /\ org = pmLast.org
                    /\ definedPatterns = pmLast.defined
       IN  /\ OrgPatterns' = r.pm
           /\ policyFiles' = r.files
           /\ pmLast' = [op |-> "UpdatePatternPolicies",
                         served |-> IF first \/ again THEN pmLast.served ELSE {},
                         org |-> org,
                         defined |-> definedPatterns,
                         err |-> r.err,
                         failed |-> r.failed,
                         at |-> r.at,
                         logged |-> r.logged,
                         creates |-> r.creates,
                         deletes |-> r.deletes,
                         stage |-> IF first THEN 2 ELSE IF again THEN 4 ELSE 0,
                         clean |-> IF first
                                   THEN pmLast.clean /\ ~r.err /\ ~r.logged
                                   ELSE IF again THEN pmLast.clean ELSE TRUE,
                         clock |-> pmLast.clock + 1]
    /\ UNCHANGED handlerVars

NextPatterns ==
    \/ \E servedPatterns \in ServedSets, delErr \in BOOLEAN :
          /\ pmLast.clock < MaxClock
          /\ SetCurrentPatterns(servedPatterns, delErr)
    \/ \E org \in PatternOrgs :
          \E definedPatterns \in DefinedMaps(org) :
             \E order \in Orders(DOMAIN definedPatterns), loopVar \in LoopVariables,
                f \in Faults :
                /\ pmLast.clock < MaxClock
                /\ UpdatePatternPolicies(org, definedPatterns, order, loopVar, f.delErr,
                                         f.delFileErr, f.createErr)

SpecPatterns == Init /\ [][NextPatterns]_vars

-----------------------------------------------------------------------------
(* Two reconciliation passes with the same served set and the same defined
   patterns, starting from a pattern manager that has served before *)

\* the pattern manager and the policy directory after a pass over org o1 in
\* which nothing failed
AfterPass(servedPatterns, definedPatterns, order, loopVar) ==
    UpdatePatternPoliciesOn(
        PmState(SetCurrentPatternsOn(PmState(NewPatternManager, {}), servedPatterns,
                                     FALSE).pm,
                {}),
        "o1", definedPatterns, order, 0, loopVar, FALSE, 0, 0)

InitReconcile ==
    /\ bcState = EmptyMap
    /\ nextPH = 1
    /\ agreements = EmptyMap
    /\ deferredCommands = <<>>
    /\ messages = <<>>
    /\ Work = <<>>
    /\ wk = [w \in Workers |-> NoWork]
    /\ recorded = {}
    /\ inputs = 0
    /\ last = [op |-> "Init", arg |-> "", ret |-> FALSE]
    /\ effects = EmptyMap
    /\ alm = {}
    /\ bcStateLock = "free"
    /\ cmdPC = Idle
    /\ heldPH = [w \in Workers |-> NilPH]
    /\ pmLast = NoCall
    /\ \E servedPatterns \in ServedSets \ {{}} :
          \E definedPatterns \in DefinedMaps("o1") :
             \E order \in Orders(DOMAIN definedPatterns), loopVar \in LoopVariables :
                LET st == AfterPass(servedPatterns, definedPatterns, order, loopVar)
                IN  /\ ~st.err
                    /\ OrgPatterns = st.pm
                    /\ policyFiles = st.files

\* a pass, and the same pass again
NextReconcile ==
    \/ \E servedPatterns \in ServedSets, delErr \in BOOLEAN :
          /\ pmLast.stage = 0
          /\ pmLast.op = "none"
          /\ SetCurrentPatterns(servedPatterns, delErr)
    \/ \E org \in PatternOrgs :
          \E definedPatterns \in DefinedMaps(org) :
             \E order \in Orders(DOMAIN definedPatterns), loopVar \in LoopVariables,
                f \in Faults :
                /\ pmLast.stage = 1
                /\ UpdatePatternPolicies(org, definedPatterns, order, loopVar, f.delErr,
                                         f.delFileErr, f.createErr)
    \/ \E delErr \in BOOLEAN :
          /\ pmLast.stage = 2
          /\ SetCurrentPatterns(pmLast.served, delErr)
    \/ \E order \in Orders(DOMAIN pmLast.defined), loopVar \in LoopVariables,
          f \in Faults :
          /\ pmLast.stage = 3
          /\ UpdatePatternPolicies(pmLast.org, pmLast.defined, order, loopVar, f.delErr,
                                   f.delFileErr, f.createErr)

SpecReconcile == InitReconcile /\ [][NextReconcile]_vars

-----------------------------------------------------------------------------
(* Properties of the termination path *)

\* the registry has an entry for the ledger the agreement names, and the
\* entry is ready
LedgerReadyFor(bc, ag) ==
    /\ ag.BlockchainOrg \in DOMAIN bc
    /\ ag.BlockchainType \in DOMAIN bc[ag.BlockchainOrg]
    /\ ag.BlockchainName \in DOMAIN bc[ag.BlockchainOrg][ag.BlockchainType]
    /\ bc[ag.BlockchainOrg][ag.BlockchainType][ag.BlockchainName].ready

CancelledOnLedger(eff, id) == EffectsOf(eff, id).cancels

IsArchived(db, id) == id \in DOMAIN db /\ db[id].Archived

\* a deferred cancellation of the agreement is on the deferred queue, on the
\* work channel or with a worker
CancelDeferred(id) ==
    \/ \E w \in DOMAIN wk : wk[w].workType = "ASYNC_CANCEL" /\ wk[w].AgreementId = id
    \/ \E i \in 1..Len(Work) : Work[i].workType = "ASYNC_CANCEL" /\ Work[i].AgreementId = id
    \/ \E i \in 1..Len(deferredCommands) :
          deferredCommands[i].workType = "ASYNC_CANCEL" /\ deferredCommands[i].AgreementId = id

CanCancelNowWhenReady ==
    /\ CanCancelNow(bcState, NilAgreement)
    /\ \A id \in DOMAIN agreements :
          CanCancelNow(bcState, agreements[id]) <=> LedgerReadyFor(bcState, agreements[id])

\* a step that writes a cancellation to the ledger or archives an agreement
\* starts in a state in which the agreement's ledger is ready
TerminatedOnlyWhenReady ==
    \A id \in DOMAIN agreements :
        (\/ CancelledOnLedger(effects', id) # CancelledOnLedger(effects, id)
         \/ IsArchived(agreements', id) /\ ~IsArchived(agreements, id))
        => LedgerReadyFor(bcState, agreements[id])

LedgerStaysReady(id) == id \in DOMAIN agreements /\ LedgerReadyFor(bcState, agreements[id])

\* C22: CanCancelNow is false exactly for an agreement whose ledger has no
\* ready entry in the registry (and true for no agreement at all); no step
\* cancels on the ledger or archives an agreement whose ledger is not ready;
\* and a deferred cancellation of an agreement whose ledger is ready from
\* then on ends with the agreement archived.
C22_TerminationDeferredUntilReady ==
    /\ []CanCancelNowWhenReady
    /\ [][TerminatedOnlyWhenReady]_vars
    /\ \A id \in AgIds :
          [](CancelDeferred(id) /\ []LedgerStaysReady(id) => <>IsArchived(agreements, id))

\* the cancellation of a1 was deferred while its ledger was not ready and has
\* now been carried out by the deferred item
C22_Witness ==
    /\ last.op = "AsyncCancel"
    /\ last.arg = "a1"
    /\ last.ret = TRUE
    /\ IsArchived(agreements, "a1")
    /\ agreements["a1"].TerminatedReason = AB_USER_REQUESTED
    /\ CancelledOnLedger(effects, "a1") = 1

ArchivedWith(id, code) ==
    IsArchived(agreements, id) /\ agreements[id].TerminatedReason = code

SendFailedFor(id) == last.op = "SendProposalFailed" /\ last.arg = id

NegativeReplyFor(id) == last.op = "NegativeReply" /\ last.arg = id

\* C23: an agreement whose proposal could not be sent ends archived with
\* code 203, and an agreement that got a negative reply ends archived with
\* code 205, whatever the registry holds and whether or not a ledger has been
\* recorded on the agreement.
C23_ArchivedInEveryRegistryState ==
    \A id \in AgIds :
        /\ [](SendFailedFor(id) => <>ArchivedWith(id, AB_CANCEL_NO_REPLY))
        /\ [](NegativeReplyFor(id) => <>ArchivedWith(id, AB_CANCEL_NEGATIVE_REPLY))

HasNoReceiver(mt) ==
    /\ mt.ReceiverExchangeId = ""
    /\ mt.ReceiverPublicKeyObj = "nil"
    /\ mt.ReceiverPublicKeyBytes = ""
    /\ mt.ReceiverMsgEndPoint = ""

TargetsHaveNoReceiver ==
    \A id \in DOMAIN effects : \A mt \in effects[id].targets : HasNoReceiver(mt)

\* a step that terminates an agreement writes one cancellation to the ledger
\* and sends nothing: the outbound queue, the consumer updates, the ledger
\* writes of agreements and the Finalized notifications are as before
TerminationSendsNothing ==
    \A id \in AgIds :
        CancelledOnLedger(effects', id) # CancelledOnLedger(effects, id)
        => /\ CancelledOnLedger(effects', id) = CancelledOnLedger(effects, id) + 1
           /\ messages' = messages
           /\ recorded' = recorded
           /\ \A other \in AgIds :
                 /\ EffectsOf(effects', other).updates = EffectsOf(effects, other).updates
                 /\ EffectsOf(effects', other).writes = EffectsOf(effects, other).writes
                 /\ EffectsOf(effects', other).notices = EffectsOf(effects, other).notices

\* C24: every message target a termination was called with has an empty
\* receiver id, key and endpoint, and a terminating step has the one
\* cancellation written to the ledger as its only outward effect.
C24_TerminationSendsNoMessage ==
    /\ []TargetsHaveNoReceiver
    /\ [][TerminationSendsNothing]_vars

\* the version 2 agreement a1 has been terminated for a missed heartbeat
C24_Witness ==
    /\ last.op = "CancelAgreement"
    /\ last.arg = "a1"
    /\ last.ret = TRUE
    /\ agreements["a1"].AgreementProtocolVersion = 2
    /\ ArchivedWith("a1", AB_CANCEL_NODE_HEARTBEAT)
    /\ CancelledOnLedger(effects, "a1") = 1
    /\ EffectsOf(effects, "a1").targets # {}

\* the reasons in the order of the reason-code table, whose codes are
\* 200, 201, ... in that order
ReasonTableOrder ==
    <<TERM_REASON_POLICY_CHANGED, TERM_REASON_NOT_FINALIZED_TIMEOUT,
      TERM_REASON_NO_DATA_RECEIVED, TERM_REASON_NO_REPLY, TERM_REASON_USER_REQUESTED,
      TERM_REASON_NEGATIVE_REPLY, TERM_REASON_CANCEL_DISCOVERED,
      TERM_REASON_CANCEL_FORCED_UPGRADE, TERM_REASON_CANCEL_BC_WRITE_FAILED,
      TERM_REASON_NODE_HEARTBEAT, TERM_REASON_AG_MISSING>>

TableCode(reason) ==
    IF \E i \in 1..Len(ReasonTableOrder) : ReasonTableOrder[i] = reason
    THEN 199 + (CHOOSE i \in 1..Len(ReasonTableOrder) : ReasonTableOrder[i] = reason)
    ELSE 999

\* C25: GetTerminationCode gives each of the eleven reasons its code of the
\* reason-code table, 200 to 210, no two reasons the same code and none of
\* them 999, and gives 999 for every other reason; the code a termination
\* request carries is the table's code of the reason it was made with.
C25_TerminationCodeTable ==
    /\ Cardinality(TerminationReasons) = 11
    /\ \A reason \in TerminationReasons \cup OtherReasons :
          GetTerminationCode(reason) = TableCode(reason)
    /\ \A reason \in TerminationReasons : GetTerminationCode(reason) \in 200..210
    /\ \A r1 \in TerminationReasons, r2 \in TerminationReasons :
          r1 # r2 => GetTerminationCode(r1) # GetTerminationCode(r2)
    /\ \A reason \in OtherReasons : GetTerminationCode(reason) = 999
    /\ last.op = "GetTerminationCode"
       => /\ last.ret = TableCode(last.arg)
          /\ \E w \in DOMAIN wk :
                wk[w] = CancelAgreementWork("a1", TableCode(last.arg))

\* a termination was requested with a reason that has no case, and the
\* request a worker holds carries 999
C25_Witness ==
    /\ last.op = "GetTerminationCode"
    /\ last.arg = "Unknown"
    /\ last.ret = 999
    /\ \E w \in DOMAIN wk : wk[w] = CancelAgreementWork("a1", 999)

-----------------------------------------------------------------------------
(* Properties of AlreadyReceivedReply and PersistReply *)

ReplyReceived(db, id) == id \in DOMAIN db /\ AlreadyReceivedReply(db[id])

\* the field AlreadyReceivedReply tests for the agreement's protocol version
ReplyField(db, id) ==
    IF id \notin DOMAIN db
    THEN ""
    ELSE IF db[id].AgreementProtocolVersion < 2
    THEN db[id].CounterPartyAddress
    ELSE db[id].BlockchainType

\* this step is a worker recording the positive reply it holds for id
RecordsReply(id, w) ==
    /\ wk[w].workType = "REPLY"
    /\ wk[w].AgreementId = id
    /\ wk[w].decision
    /\ wk'[w] = NoWork
    /\ last'.op = "PostReply"
    /\ last'.arg = id

\* AlreadyReceivedReply becomes true, and the field it tests changes, only
\* in a step that records a reply for the agreement
SetOnlyByPersistReply ==
    \A id \in AgIds :
        (\/ ReplyReceived(agreements', id) /\ ~ReplyReceived(agreements, id)
         \/ ReplyField(agreements', id) # ReplyField(agreements, id))
        => \E w \in DOMAIN wk : RecordsReply(id, w)

\* after a step that records a positive reply AlreadyReceivedReply is true
TrueAfterPersistReply ==
    \A id \in AgIds, w \in DOMAIN wk :
        RecordsReply(id, w) => ReplyReceived(agreements', id)

\* after a step that records a positive reply AlreadyReceivedReply is true
\* exactly when the reply carried the field it tests: the producer's address
\* for version 1, the ledger type for version 2
TrueAfterPersistReplyWithField ==
    \A id \in AgIds, w \in DOMAIN wk :
        RecordsReply(id, w)
        => (ReplyReceived(agreements', id)
            <=> IF agreements[id].AgreementProtocolVersion < 2
                THEN wk[w].Address # ""
                ELSE wk[w].key.type # "")

\* C27 as stated: AlreadyReceivedReply is true only after a reply was
\* recorded, the field it tests is set only by recording a reply, and after
\* every recorded positive reply it is true.
C27_ReplyReceivedIffRecorded ==
    /\ [][SetOnlyByPersistReply]_vars
    /\ [][TrueAfterPersistReply]_vars

\* C27: AlreadyReceivedReply is true only after a reply was recorded, the
\* field it tests is set only by recording a reply, and after a recorded
\* positive reply it is true exactly when that reply carried a non-empty
\* producer address (version 1) or a non-empty ledger type (version 2).
C27_ReplyReceivedIffFieldRecorded ==
    /\ [][SetOnlyByPersistReply]_vars
    /\ [][TrueAfterPersistReplyWithField]_vars

\* a positive reply naming ledger K1 has been recorded for the version 2
\* agreement a1
C27_Witness ==
    /\ last.op = "PostReply"
    /\ last.arg = "a1"
    /\ "a1" \in DOMAIN agreements
    /\ agreements["a1"].AgreementProtocolVersion = 2
    /\ agreements["a1"].BlockchainType = "ethereum"
    /\ AlreadyReceivedReply(agreements["a1"])

-----------------------------------------------------------------------------
(* Properties of the pattern manager *)

\* the (org, pattern) pairs the pattern manager holds
KeysOf(pm) ==
    UNION {{[Org |-> org, Pattern |-> pattern] : pattern \in DOMAIN pm[org]} :
              org \in DOMAIN pm}

PatternEntryOf(pm, key) == pm[key.Org][key.Pattern]

\* the policy files of an (org, pattern) pair in the policy directory
FilesOf(files, key) == {f \in files : f.org = key.Org /\ f.pattern = key.Pattern}

SetStep == pmLast'.op = "SetCurrentPatterns" /\ pmLast'.clock = pmLast.clock + 1

UpdateStep == pmLast'.op = "UpdatePatternPolicies" /\ pmLast'.clock = pmLast.clock + 1

\* after SetCurrentPatterns the keys are the served set, a key held before
\* has the entry it had, and a new key has a nil entry
ServedSetTakenOver ==
    SetStep
    => /\ ~pmLast'.err
       /\ KeysOf(OrgPatterns') = pmLast'.served
       /\ \A key \in pmLast'.served :
             IF key \in KeysOf(OrgPatterns)
             THEN PatternEntryOf(OrgPatterns', key) = PatternEntryOf(OrgPatterns, key)
             ELSE PatternEntryOf(OrgPatterns', key) = NilEntry

\* the policy files of every pair that is no longer served are gone
UnservedFilesRemoved ==
    SetStep
    => \A key \in KeysOf(OrgPatterns) \ pmLast'.served : FilesOf(policyFiles', key) = {}

\* the policy files of every pair that is no longer served are gone unless
\* the file deletion failed, which is logged and not returned; the files of
\* the other pairs are as before
UnservedFilesRemovedUnlessLogged ==
    SetStep
    => /\ ~pmLast'.logged
          => \A key \in KeysOf(OrgPatterns) \ pmLast'.served :
                FilesOf(policyFiles', key) = {}
       /\ pmLast'.logged => policyFiles' = policyFiles
       /\ \A key \in pmLast'.served : FilesOf(policyFiles', key) = FilesOf(policyFiles, key)

\* C28 as stated: after SetCurrentPatterns(served) has returned without an
\* error the keys are exactly the served set, kept keys have their entry
\* unchanged, new keys have a nil entry, and every pair that is no longer
\* served is gone together with its policy files.
C28_ServedSetAndFilesRemoved ==
    /\ [][ServedSetTakenOver]_vars
    /\ [][UnservedFilesRemoved]_vars

\* C28: after SetCurrentPatterns(served) has returned without an error the
\* keys are exactly the served set, kept keys have their entry unchanged, new
\* keys have a nil entry, and every pair that is no longer served is gone
\* from the manager; its policy files are gone when the file deletion
\* succeeded, and all still there when it failed.
C28_ServedSetTakenOver ==
    /\ [][ServedSetTakenOver]_vars
    /\ [][UnservedFilesRemovedUnlessLogged]_vars

\* SetCurrentPatterns kept the entry of o1/p1 with its file, gave the new
\* o2/p1 a nil entry and removed o1/p2 with its files
C28_Witness ==
    /\ pmLast.op = "SetCurrentPatterns"
    /\ ~pmLast.logged
    /\ pmLast.deletes > 0
    /\ pmLast.served = {[Org |-> "o1", Pattern |-> "p1"], [Org |-> "o2", Pattern |-> "p1"]}
    /\ KeysOf(OrgPatterns) = pmLast.served
    /\ OrgPatterns["o1"]["p1"] # NilEntry
    /\ OrgPatterns["o2"]["p1"] = NilEntry
    /\ FilesOf(policyFiles, [Org |-> "o1", Pattern |-> "p1"]) # {}
    /\ FilesOf(policyFiles, [Org |-> "o1", Pattern |-> "p2"]) = {}

\* the names of the policy files generated from a defined pattern
GeneratedFileNames(org, patternId, pattern) ==
    [i \in 1..Len(ConvertToPolicies(patternId, pattern)) |->
        PolicyFileName(org, ConvertToPolicies(patternId, pattern)[i].Header.Name)]

\* a call of UpdatePatternPolicies that returned without an error
UpdateSucceeded == UpdateStep /\ ~pmLast'.err

\* the defined patterns of the call's org that the manager held when the call
\* began: the patterns both served and defined
ServedAndDefined ==
    {patternId \in DOMAIN pmLast'.defined :
        hasPattern(OrgPatterns, pmLast'.org, GetId(patternId))}

\* every pattern both served and defined has an entry holding the defined
\* pattern and its hash
EntriesHoldDefined ==
    UpdateSucceeded
    => \A patternId \in ServedAndDefined :
          /\ hasPattern(OrgPatterns', pmLast'.org, GetId(patternId))
          /\ LET pe == OrgPatterns'[pmLast'.org][GetId(patternId)]
             IN  /\ pe # NilEntry
                 /\ pe.Pattern = pmLast'.defined[patternId]
                 /\ pe.Hash = hashPattern(pmLast'.defined[patternId])

\* every pattern both served and defined has the policy files generated from
\* the defined pattern: the entry names them and they are on disk
FilesGenerated ==
    UpdateSucceeded
    => \A patternId \in ServedAndDefined :
          /\ hasPattern(OrgPatterns', pmLast'.org, GetId(patternId))
          /\ LET pe == OrgPatterns'[pmLast'.org][GetId(patternId)]
                 names == GeneratedFileNames(pmLast'.org, patternId,
                                             pmLast'.defined[patternId])
             IN  /\ pe # NilEntry
                 /\ pe.PolicyFileNames = names
                 /\ SeqRange(names) \subseteq policyFiles'

\* an entry whose hash differed has lost the files it named that the new
\* pattern does not generate
OldFilesGone ==
    UpdateSucceeded
    => \A patternId \in ServedAndDefined :
          LET old == OrgPatterns[pmLast'.org][GetId(patternId)]
              names == GeneratedFileNames(pmLast'.org, patternId,
                                          pmLast'.defined[patternId])
          IN  (old # NilEntry /\ old.Hash # hashPattern(pmLast'.defined[patternId]))
              => (SeqRange(old.PolicyFileNames) \ SeqRange(names)) \cap policyFiles' = {}

\* a defined pattern that is not served gets no entry and no file
NothingForUnserved ==
    UpdateSucceeded
    => /\ KeysOf(OrgPatterns') \subseteq KeysOf(OrgPatterns)
       /\ \A patternId \in DOMAIN pmLast'.defined \ ServedAndDefined :
             FilesOf(policyFiles', [Org |-> pmLast'.org, Pattern |-> GetId(patternId)])
                 \subseteq FilesOf(policyFiles, [Org |-> pmLast'.org,
                                                 Pattern |-> GetId(patternId)])

\* C29 as stated: after UpdatePatternPolicies(org, defined) has returned
\* without an error every pattern both served and defined has an entry
\* holding the defined pattern and its hash, with the policy files generated
\* from it; a changed pattern's old files are gone; nothing is created for a
\* defined pattern that is not served.
C29_EntriesHoldDefinedPatterns ==
    /\ [][EntriesHoldDefined]_vars
    /\ [][FilesGenerated]_vars
    /\ [][OldFilesGone]_vars
    /\ [][NothingForUnserved]_vars

\* the parts of C29 taken one at a time
C29_EntriesPart == [][EntriesHoldDefined]_vars
C29_FilesPart == [][FilesGenerated]_vars
C29_OldFilesPart == [][OldFilesGone]_vars
C29_UnservedPart == [][NothingForUnserved]_vars


\* the entries the pattern manager holds, each with its key
LiveEntries(pm) ==
    {<<key, PatternEntryOf(pm, key)>> :
        key \in {k \in KeysOf(pm) : PatternEntryOf(pm, k) # NilEntry}}

\* a call of the second pass: SetCurrentPatterns with the served set of the
\* pass before, or UpdatePatternPolicies after it with the org and the
\* defined patterns of the pass before
SecondPassStep ==
    /\ pmLast'.clock = pmLast.clock + 1
    /\ pmLast'.stage \in {3, 4}

\* the call created and deleted no policy file and left every entry as it was
NoFileOrEntryChanged ==
    /\ pmLast'.creates = 0
    /\ pmLast'.deletes = 0
    /\ policyFiles' = policyFiles
    /\ LiveEntries(OrgPatterns') = LiveEntries(OrgPatterns)

-----------------------------------------------------------------------------
(* Invariants of the pattern manager *)

\* the entry's hash is the hash of the pattern the entry holds
HashMatchesPattern(pe) == pe.Hash = hashPattern(pe.Pattern)

\* C31 as stated: after any sequence of reconciliation passes every live
\* PatternEntry has hash == SHA3-256(canonical_json(entry.pattern)), also
\* when one UpdatePatternPolicies call makes or updates the entries of two or
\* more patterns of the same org.
C31_LiveEntryHashMatchesPattern ==
    \A e \in LiveEntries(OrgPatterns) : HashMatchesPattern(e[2])

\* the files the live entries name
NamedFiles(pm) == UNION {SeqRange(e[2].PolicyFileNames) : e \in LiveEntries(pm)}

\* the policy directory holds exactly the files the live entries name
DiskMatchesEntries(pm, files) == files = NamedFiles(pm)

\* a call of SetCurrentPatterns or of UpdatePatternPolicies
PatternStep == SetStep \/ UpdateStep

DeletionFailed ==
    /\ PatternStep
    /\ pmLast'.logged \/ pmLast'.failed = "DeleteAllPolicyFiles"

\* C33 as stated: a file-system error while deleting policy files never
\* aborts a reconciliation call, whether the files are those of an org or
\* pattern that is no longer served, of a pattern that is no longer defined,
\* or the old files of a changed pattern: the call returns no error for it.
C33_DeletionErrorNeverAborts == [][DeletionFailed => ~pmLast'.err]_vars

\* the part of C33 about deleteOrg and deletePattern
C33_LoggedPart == [][(PatternStep /\ pmLast'.logged) => ~pmLast'.err]_vars

\* the creation of policy files failed in the call
CreationFailed == UpdateStep /\ pmLast'.failed = "createPolicyFiles"

\* the key of the pattern whose policy files the call failed to create
Offending == [Org |-> pmLast'.org, Pattern |-> pmLast'.at]

\* C34 as stated: an error while creating policy files aborts
\* UpdatePatternPolicies with an error and leaves the offending entry as it
\* was before the call: a nil entry is still nil, an existing entry has its
\* previous pattern, hash and policy file names.
C34_CreationErrorLeavesEntry ==
    [][CreationFailed
       => /\ pmLast'.err
          /\ PatternEntryOf(OrgPatterns', Offending) = PatternEntryOf(OrgPatterns, Offending)]_vars

\* the part of C34 about the error: the call returns an error
C34_AbortPart == [][CreationFailed => pmLast'.err]_vars

\* the last call of a second pass that met no fault, after a first pass with
\* the same served set and defined patterns in which a call returned an error
\* or logged a failed deletion
RepairStep ==
    /\ UpdateStep
    /\ pmLast'.stage = 4
    /\ ~pmLast.clean
    /\ ~pmLast.logged
    /\ ~pmLast'.err
    /\ ~pmLast'.logged

\* the patterns of the call's org that are served and defined
ServedAndDefinedOf(served, org, defined) ==
    {patternId \in DOMAIN defined : [Org |-> org, Pattern |-> GetId(patternId)] \in served}

\* every served and defined pattern of the org has an entry naming all the
\* policy files of its defined pattern, and they are on disk
AllFilesOnDisk(pm, files, served, org, defined) ==
    \A patternId \in ServedAndDefinedOf(served, org, defined) :
        /\ hasPattern(pm, org, GetId(patternId))
        /\ pm[org][GetId(patternId)] # NilEntry
        /\ pm[org][GetId(patternId)].PolicyFileNames
               = GeneratedFileNames(org, patternId, defined[patternId])
        /\ SeqRange(GeneratedFileNames(org, patternId, defined[patternId])) \subseteq files

\* C35 as stated: after a pass in which a file deletion or creation failed,
\* one more pass with the same served set and defined patterns and no fault
\* leaves every served and defined pattern with all its policy files on disk
\* and the disk holding exactly the files the live entries name.
C35_NextPassRepairs ==
    [][RepairStep
       => /\ AllFilesOnDisk(OrgPatterns', policyFiles', pmLast'.served, pmLast'.org,
                            pmLast'.defined)
          /\ DiskMatchesEntries(OrgPatterns', policyFiles')]_vars

\* the parts of C35 taken one at a time
C35_FilesPart ==
    [][RepairStep => AllFilesOnDisk(OrgPatterns', policyFiles', pmLast'.served, pmLast'.org,
                                    pmLast'.defined)]_vars
C35_DiskPart == [][RepairStep => DiskMatchesEntries(OrgPatterns', policyFiles')]_vars

\* the patterns of the call's org that the manager held and that are not
\* among the defined patterns
Undefined ==
    {pattern \in DOMAIN OrgPatterns[pmLast'.org] :
        ~\E patternId \in DOMAIN pmLast'.defined : GetId(patternId) = pattern}

\* what UpdatePatternPolicies removes from the manager, and its error for an
\* org the manager does not hold
RemovedFromManager ==
    UpdateStep
    => IF ~hasOrg(OrgPatterns, pmLast'.org)
       THEN /\ pmLast'.err
            /\ OrgPatterns' = OrgPatterns
            /\ policyFiles' = policyFiles
       ELSE IF DOMAIN pmLast'.defined = {}
       THEN /\ ~hasOrg(OrgPatterns', pmLast'.org)
            /\ ~pmLast'.err
       ELSE /\ hasOrg(OrgPatterns', pmLast'.org)
            /\ \A pattern \in Undefined : ~hasPattern(OrgPatterns', pmLast'.org, pattern)

\* the policy files of what UpdatePatternPolicies removed are gone
RemovedFilesGone ==
    (UpdateStep /\ hasOrg(OrgPatterns, pmLast'.org))
    => IF DOMAIN pmLast'.defined = {}
       THEN {f \in policyFiles' : f.org = pmLast'.org} = {}
       ELSE \A pattern \in Undefined :
               FilesOf(policyFiles', [Org |-> pmLast'.org, Pattern |-> pattern]) = {}

\* C36 as stated: UpdatePatternPolicies(org, defined) removes, together with
\* its policy files, every pattern of org that is not defined, and the whole
\* org with all its policy files when nothing is defined; for an org the
\* manager does not hold it returns an error and changes nothing.
C36_UndefinedRemovedWithFiles ==
    /\ [][RemovedFromManager]_vars
    /\ [][RemovedFilesGone]_vars

\* C36: UpdatePatternPolicies(org, defined) removes from the manager every
\* pattern of org that is not defined, and the whole org when nothing is
\* defined; the policy files of what it removed are gone unless their
\* deletion failed, which is logged; for an org the manager does not hold it
\* returns an error and changes nothing.
C36_UndefinedRemoved ==
    /\ [][RemovedFromManager]_vars
    /\ [][~pmLast'.logged => RemovedFilesGone]_vars

\* UpdatePatternPolicies has removed o1/p2, which is not defined, with its
\* files, and kept o1/p1, which is
C36_Witness ==
    /\ pmLast.op = "UpdatePatternPolicies"
    /\ pmLast.org = "o1"
    /\ DOMAIN pmLast.defined = {<<"o1", "p1">>}
    /\ ~pmLast.err
    /\ ~pmLast.logged
    /\ pmLast.deletes > 0
    /\ pmLast.creates = 0
    /\ hasPattern(OrgPatterns, "o1", "p1")
    /\ OrgPatterns["o1"]["p1"] # NilEntry
    /\ ~hasPattern(OrgPatterns, "o1", "p2")
    /\ FilesOf(policyFiles, [Org |-> "o1", Pattern |-> "p2"]) = {}
    /\ FilesOf(policyFiles, [Org |-> "o1", Pattern |-> "p1"]) # {}

-----------------------------------------------------------------------------
(* Ready and writable in the ledger client registry *)

\* the ledger instance has an entry in the registry
HasEntry(bc, k) == k \in Entries(bc)

\* an entry exists exactly when IsBlockchainReady holds, exactly when
\* IsBlockchainWritable holds
ReadyIffWritable ==
    \A k \in LedgerKeys :
        /\ HasEntry(bcState, k) <=> IsBlockchainReady(bcState, k.type, k.name, k.org)
        /\ IsBlockchainReady(bcState, k.type, k.name, k.org)
               <=> IsBlockchainWritable(bcState, k.type, k.name, k.org)

\* SetBlockchainClientAvailable leaves the registry as it is
InitializedChangesNothing ==
    last'.op = "SetBlockchainClientAvailable" /\ inputs' = inputs + 1 => bcState' = bcState

\* C37: a BlockchainClientInitialized event leaves the registry unchanged,
\* and in every reachable state a ledger instance has an entry exactly when
\* it is ready, exactly when it is writable.
C37_ReadyIffWritable == []ReadyIffWritable /\ [][InitializedChangesNothing]_vars

\* a BlockchainClientInitialized event has been handled for a ledger
\* instance that has no entry, while another instance is ready and writable
C37_Witness ==
    /\ last.op = "SetBlockchainClientAvailable"
    /\ ~HasEntry(bcState, last.arg)
    /\ ~IsBlockchainReady(bcState, last.arg.type, last.arg.name, last.arg.org)
    /\ \E k \in LedgerKeys : IsBlockchainWritable(bcState, k.type, k.name, k.org)

-----------------------------------------------------------------------------
(* What PostReply and the fan-out of SetBlockchainWritable defer *)

\* the AsyncUpdate and AsyncWrite commands the step has added to the
\* deferred queue
NewlyDeferred ==
    IF /\ Len(deferredCommands') > Len(deferredCommands)
       /\ SubSeq(deferredCommands', 1, Len(deferredCommands)) = deferredCommands
    THEN {c \in {deferredCommands'[i] : i \in (Len(deferredCommands) + 1)..Len(deferredCommands')} :
             c.workType \in {"ASYNC_UPDATE", "ASYNC_WRITE"}}
    ELSE {}

\* the command's agreement names a ledger instance that is writable
OwnLedgerWritable(bc, db, c) ==
    /\ c.AgreementId \in DOMAIN db
    /\ PostReplyWritable(bc, db[c.AgreementId])

\* the command's agreement has received a reply
ReplyReceivedFor(db, c) ==
    /\ c.AgreementId \in DOMAIN db
    /\ AlreadyReceivedReply(db[c.AgreementId])

\* what PostReply defers is for an agreement whose own ledger is writable
PostReplyDefersForWritable ==
    last'.op = "PostReply"
    => \A c \in NewlyDeferred : OwnLedgerWritable(bcState', agreements', c)

\* what the fan-out of SetBlockchainWritable defers is for an agreement that
\* has its reply and whose own ledger is writable
FanOutDefersForWritable ==
    last'.op = "SetBlockchainWritable"
    => \A c \in NewlyDeferred :
          /\ OwnLedgerWritable(bcState', agreements', c)
          /\ ReplyReceivedFor(agreements', c)

\* C38 as stated: every AsyncUpdate or AsyncWrite command that PostReply or
\* the fan-out of SetBlockchainWritable defers is for an agreement whose own
\* ledger instance is writable at that moment, and the fan-out defers
\* nothing for an agreement that has not received a reply.
C38_DeferredOnlyForWritableLedger ==
    /\ [][PostReplyDefersForWritable]_vars
    /\ [][FanOutDefersForWritable]_vars

\* the part of C38 about PostReply
C38_PostReplyPart == [][PostReplyDefersForWritable]_vars

\* the part of C38 about agreements that have their reply: the fan-out
\* defers for them only when their own ledger is writable
C38_OtherLedgerPart ==
    [][last'.op = "SetBlockchainWritable"
       => \A c \in NewlyDeferred :
             ReplyReceivedFor(agreements', c) => OwnLedgerWritable(bcState', agreements', c)]_vars

-----------------------------------------------------------------------------
(* SetBlockchainWritable when InitBlockchain fails *)

\* the step is SetBlockchainWritable for the ledger instance k with a failed
\* InitBlockchain
FailedInitStep(k) ==
    \E dbErr \in BOOLEAN : SetBlockchainWritable(k, ConfigA, TRUE, dbErr)

\* after a failed InitBlockchain the ledger instance is reported as not
\* available
FailedInitLeavesUnavailable ==
    \A k \in {K1, K2} : FailedInitStep(k) => Unavailable(bcState', k)

\* after a failed InitBlockchain nothing is deferred
FailedInitDefersNothing ==
    \A k \in {K1, K2} : FailedInitStep(k) => NewlyDeferred = {}

\* C39 as stated: SetBlockchainWritable makes a ledger instance ready and
\* writable only if InitBlockchain succeeded; after a failed InitBlockchain
\* isReady, isWritable and getHandler report the instance as not available
\* and no AsyncUpdate or AsyncWrite is deferred.
C39_FailedInitNotWritable ==
    /\ [][FailedInitLeavesUnavailable]_vars
    /\ [][FailedInitDefersNothing]_vars

\* the parts of C39 taken one at a time
C39_UnavailablePart == [][FailedInitLeavesUnavailable]_vars
C39_DeferPart == [][FailedInitDefersNothing]_vars

\* ---------------------------------------------------------------------------
\* UpdateProducer: the consumer update and the persisted hash and signature

\* worker w runs UpdateProducer in this step, with failure point fail
UpdateProducerStep(w, fail) ==
    ProcessAsyncUpdate(w, fail) /\ last'.op = "UpdateProducer"

\* the step sent a consumer update for agreement id
ConsumerUpdateSent(id) ==
    EffectsOf(effects', id).updates > EffectsOf(effects, id).updates

\* the agreement holds the consumer's proposal hash and signature after the step
HashAndSigPersisted(id) ==
    agreements'[id].ConsumerProposalSig # "" /\ agreements'[id].ProposalHash # ""

\* the step changed no field of any agreement
NoAgreementFieldChanged == agreements' = agreements

\* one call of UpdateProducer is all-or-nothing
AllOrNothing(w, fail) ==
    LET id == wk[w].AgreementId
    IN  /\ ConsumerUpdateSent(id) => HashAndSigPersisted(id)
        /\ ~NoAgreementFieldChanged => ConsumerUpdateSent(id)
        /\ fail # "none" => ~ConsumerUpdateSent(id) /\ NoAgreementFieldChanged

\* C40: UpdateProducer is all-or-nothing for a version-2 agreement: a call
\* that sends the consumer update leaves the proposal hash and signature
\* persisted on the agreement, a call that changes the agreement has sent the
\* update, and a call that fails anywhere has sent nothing and changed no
\* agreement field
C40_UpdateProducerAllOrNothing ==
    [][\A w \in DOMAIN wk, fail \in UpdateFailures :
          UpdateProducerStep(w, fail) => AllOrNothing(w, fail)]_vars

\* the part of C40 that holds: a call that fails before or at the send
\* (endpoint lookup, message target, ledger handler, send) has sent nothing
\* and changed no agreement field, and only a call that sent the update
\* changes the agreement
C40_FailureBeforeSendPart ==
    [][\A w \in DOMAIN wk, fail \in {"endpoint", "send"} :
          UpdateProducerStep(w, fail) =>
              /\ ~ConsumerUpdateSent(wk[w].AgreementId)
              /\ NoAgreementFieldChanged]_vars

C40_ChangeImpliesSentPart ==
    [][\A w \in DOMAIN wk, fail \in UpdateFailures :
          UpdateProducerStep(w, fail) /\ ~NoAgreementFieldChanged =>
              ConsumerUpdateSent(wk[w].AgreementId)]_vars

=============================================================================
